---- MODULE Spec2Model ----
(***************************************************************************)
(* Model of the rekordbox export.pdb decoder of universal-dj-usb:          *)
(*   - RekordboxPdb (kaitai/rekordbox_pdb.py): file header, table          *)
(*     directory, pages, row groups, row references;                       *)
(*   - RekordboxParser (parser.py): parse, the three table walks of        *)
(*     get_playlists and the assembly of the PlaylistTree.                 *)
(*                                                                         *)
(* A file is a record: the header fields, the table directory and the     *)
(* pages 1..Len(pages) (page 0 is the header page).  A page is the view    *)
(* of its bytes that Page._read and the row index give: the header fields, *)
(* and for each row group the presence mask and, per slot, the row found   *)
(* at the slot's offset.  A row is [ok, w, s]: ok says whether the row's   *)
(* bytes lie inside the page (a read past the end raises EOFError), w are  *)
(* its fixed-width words in the order the row classes read them, s its     *)
(* strings.                                                                *)
(***************************************************************************)
EXTENDS Integers, Sequences, FiniteSets, TLC

\* Bounds of the model.
MaxPages == 2        \* pages of a generated chain file
MaxVisits == 4       \* page loads of one walk the model follows (a cyclic walk never ends)
MaxEntries == 3      \* playlist_entries rows of a generated content file
MaxMetas == 2        \* playlist_tree rows of a generated content file
MaxAccesses == 2     \* property reads made on one page besides the walk's scan
MaxText == 2         \* code points of a generated text
MaxSections == 2     \* sections of a generated analysis file
MaxResolves == 3     \* reads of string properties of one row
MaxTrackRows == 2    \* rows of one page of a generated tracks table

\* Sizes fixed by the format definition.
HeaderLen == 28      \* bytes read by RekordboxPdb._read up to and including gap
TableLen == 16       \* bytes of one Table directory entry
LargeSentinel == 8191
PageHeaderLen == 40  \* bytes read by Page._read
GroupLen == 36       \* bytes of one row group of the row index

None == "None"
NoParent == 0 - 1    \* Playlist.parent_id None (ids on disk are u32, never negative)

VARIABLES
    file,           \* the bytes of export.pdb (input, never written)
    pdb_data,       \* RekordboxParser.pdb_data: None or the parsed RekordboxPdb
    parse_result,   \* what the last parse() returned: "none" before any call
    io_pos,         \* position of the root stream
    pc,             \* where get_playlists is: idle, playlist_tree, playlist_entries, tracks, done
    current_page,   \* the walk's current_page: a page index, 0 for None
    broke,          \* the walk left its loop through `break`
    playlists,      \* _extract_playlist_metadata's list
    entries,        \* _extract_playlist_entries's list
    tracks,         \* _extract_minimal_tracks's dict
    visited,        \* history: per table, the pages loaded by its walk, in order
    yielded,        \* history: per table, the <<page, group, slot>> of every row appended
    tree,           \* the PlaylistTree returned by get_playlists, None before
    raw_page,       \* the bytes of one page, and what a short read does to the position
    obj,            \* the Page built on them: stream position and cached instances
    accesses,       \* number of property reads made so far
    scan,           \* what the walk's loops over the page's rows found
    codec,          \* one DeviceSqlString: the stream it is read from and what it decoded
    anlz,           \* one analysis file: its bytes, the reader's position, the sections read
    walkers,        \* two table walks run side by side: each one's table and locals
    usb,            \* a USB drive's root directory and what find_pdb_file returned for it
    lazy,           \* one row of a page, the page's stream, the row's cached strings
    enhance         \* one call of enhance_playlist_tracks: arguments, tracks table, result

pipevars == <<file, pdb_data, parse_result, io_pos, pc, current_page, broke,
              playlists, entries, tracks, visited, yielded, tree>>

rowvars == <<raw_page, obj, accesses, scan>>

sidevars == <<codec, anlz, walkers>>

callvars == <<usb, lazy, enhance>>

vars == <<pipevars, rowvars, sidevars, callvars>>

WalkTables == <<"playlist_tree", "playlist_entries", "tracks">>
Walks == {WalkTables[k] : k \in 1..3}

--------------------------------------------------------------------------
(* Integer helpers *)

RECURSIVE Pow2(_)
Pow2(n) == IF n = 0 THEN 1 ELSE 2 * Pow2(n - 1)

\* (x >> n) & 1
Bit(x, n) == (x \div Pow2(n)) % 2

--------------------------------------------------------------------------
(* rekordbox_pdb.py: Page *)

\* A bug: the large count taken whenever it is not the sentinel
num_rows_LargeWins(page) ==
    IF page.num_rows_large # LargeSentinel THEN page.num_rows_large
    ELSE page.num_rows_small

\* Page.num_rows
num_rows(page) ==
    IF page.num_rows_large > page.num_rows_small /\ page.num_rows_large # LargeSentinel
    THEN page.num_rows_large
    ELSE page.num_rows_small

\* A bug: one group more than the quotient, whatever the remainder
num_row_groups_Floor(page) == (num_rows(page) \div 16) + 1

\* Page.num_row_groups: Python's floor division, (0 - 1) // 16 = -1
num_row_groups(page) ==
    IF num_rows(page) = 0 THEN 0 ELSE ((num_rows(page) - 1) \div 16) + 1

\* Page.is_data_page with the flag test lost: every page is scanned for rows
is_data_page_Always(page) == page.page_flags >= 0

\* Page.is_data_page
is_data_page(page) == Bit(page.page_flags, 6) = 0

\* RowRef.present
present(page, g, i) == Bit(page.groups[g + 1].row_present_flags, i) # 0

--------------------------------------------------------------------------
(* rekordbox_pdb.py: the row classes and RowRef.body *)

PlaylistTreeRow(raw) ==
    [cls |-> "PlaylistTreeRow", parent_id |-> raw.w[1], sort_order |-> raw.w[3],
     id |-> raw.w[4], raw_is_folder |-> raw.w[5], name |-> raw.s[1]]

PlaylistEntryRow(raw) ==
    [cls |-> "PlaylistEntryRow", entry_index |-> raw.w[1], track_id |-> raw.w[2],
     playlist_id |-> raw.w[3]]

HistoryEntryRow(raw) ==
    [cls |-> "HistoryEntryRow", track_id |-> raw.w[1], playlist_id |-> raw.w[2],
     entry_index |-> raw.w[3]]

\* Of TrackRow the walks use id, title and file_path only
TrackRow(raw) ==
    [cls |-> "TrackRow", id |-> raw.w[1], title |-> raw.s[1], file_path |-> raw.s[2]]

\* Page types whose rows RowRef.body decodes; the model keeps the classes above
\* and stands for the other decoded types by their class name alone.
RowClassOf(type) ==
    CASE type = "playlist_tree" -> "PlaylistTreeRow"
      [] type = "playlist_entries" -> "PlaylistEntryRow"
      [] type = "tracks" -> "TrackRow"
      [] type = "history_entries" -> "HistoryEntryRow"
      [] type \in {"keys", "artists", "albums", "genres", "history_playlists",
                   "artwork", "labels", "colors"} -> "OtherRow"
      [] OTHER -> None

NoBody == [cls |-> None]

Row(ok, w, s) == [ok |-> ok, w |-> w, s |-> s]

\* The row at the offset of slot i of a group; the model writes out the rows
\* of the slots it fills, the other offsets are zero and lead to zero bytes
BlankRow == Row(TRUE, <<0, 0, 0, 0, 0>>, <<"", "">>)
RowAt(group, i) == IF i \in DOMAIN group.rows THEN group.rows[i] ELSE BlankRow

\* RowRef.body: [exc, body].  Nothing is read for a slot that is not present;
\* the decoder is chosen by the type in the page's own header, and a type
\* without a decoder leaves the body None.
RowBody(page, g, i) ==
    LET raw == RowAt(page.groups[g + 1], i)
        cls == RowClassOf(page.type)
    IN  IF ~present(page, g, i) THEN [exc |-> FALSE, body |-> NoBody]
        ELSE IF cls = None THEN [exc |-> FALSE, body |-> NoBody]
        ELSE IF ~raw.ok THEN [exc |-> TRUE, body |-> NoBody]
        ELSE [exc |-> FALSE,
              body |-> CASE cls = "PlaylistTreeRow" -> PlaylistTreeRow(raw)
                         [] cls = "PlaylistEntryRow" -> PlaylistEntryRow(raw)
                         [] cls = "TrackRow" -> TrackRow(raw)
                         [] cls = "HistoryEntryRow" -> HistoryEntryRow(raw)
                         [] OTHER -> [cls |-> "OtherRow"]]

--------------------------------------------------------------------------
(* parser.py: what each walk makes of a row body *)

\* Path(file_path_str) if file_path_str else Path("Unknown")
PathOf(str) == IF str = "" THEN "Unknown" ELSE str

\* The attributes the loop body of walk t reads exist on the body's class
HasAttrs(t, body) ==
    CASE t = "playlist_tree" -> body.cls = "PlaylistTreeRow"
      [] t = "playlist_entries" -> body.cls \in {"PlaylistEntryRow", "HistoryEntryRow"}
      [] t = "tracks" -> body.cls = "TrackRow"

\* parser.py 129-139, 189-193, 255-264
ItemOf(t, body) ==
    CASE t = "playlist_tree" ->
            [id |-> body.id, name |-> body.name, parent_id |-> body.parent_id,
             is_folder |-> (body.raw_is_folder # 0), sort_order |-> body.sort_order]
      [] t = "playlist_entries" ->
            [playlist_id |-> body.playlist_id, track_id |-> body.track_id,
             entry_index |-> body.entry_index]
      [] t = "tracks" ->
            [key |-> body.id,
             track |-> [title |-> body.title, artist |-> "Unknown",
                        file_path |-> PathOf(body.file_path)]]

\* The body of the loops over row_groups and rows of one data page, for
\* slot k: acc = [items, locs, exc]; an exception keeps what was appended.
ScanRow(t, p, page, k, acc) ==
    LET g == k \div 16
        i == k % 16
        r == RowBody(page, g, i)
    IN  IF ~present(page, g, i) THEN acc
        ELSE IF r.exc THEN [acc EXCEPT !.exc = TRUE]
        ELSE IF r.body = NoBody THEN acc
        ELSE IF ~HasAttrs(t, r.body) THEN [acc EXCEPT !.exc = TRUE]
        ELSE [acc EXCEPT !.items = Append(@, ItemOf(t, r.body)),
                         !.locs = Append(@, <<p, g, i>>)]

\* A bug: an exception drops what the page had given
RECURSIVE ScanRows_DropOnError(_, _, _, _, _)
ScanRows_DropOnError(t, p, page, k, acc) ==
    IF acc.exc THEN [acc EXCEPT !.items = <<>>, !.locs = <<>>]
    ELSE IF k >= 16 * num_row_groups(page) THEN acc
    ELSE ScanRows_DropOnError(t, p, page, k + 1, ScanRow(t, p, page, k, acc))

\* The nested loops from slot k on; an exception ends them
RECURSIVE ScanRows(_, _, _, _, _)
ScanRows(t, p, page, k, acc) ==
    IF acc.exc \/ k >= 16 * num_row_groups(page) THEN acc
    ELSE ScanRows(t, p, page, k + 1, ScanRow(t, p, page, k, acc))

--------------------------------------------------------------------------
(* parser.py: get_playlists, lines 60-89 *)

\* The tracks of one playlist, the list cut at the first entry without a track
TracksOf_CutAtMissing(meta, ents, trks) ==
    LET mine == SelectSeq(ents, LAMBDA e : e.playlist_id = meta.id)
        miss == {k \in 1..Len(mine) : mine[k].track_id \notin DOMAIN trks}
        n == IF miss = {} THEN Len(mine)
             ELSE (CHOOSE k \in miss : \A j \in miss : k <= j) - 1
    IN  [k \in 1..n |-> trks[mine[k].track_id]]

\* The tracks of one playlist: the entries of the playlist in list order,
\* looked up in minimal_tracks, the misses dropped (lines 65-71)
TracksOf(meta, ents, trks) ==
    LET mine == SelectSeq(ents, LAMBDA e : e.playlist_id = meta.id)
        found == SelectSeq(mine, LAMBDA e : e.track_id \in DOMAIN trks)
    IN  [k \in 1..Len(found) |-> trks[found[k].track_id]]

\* Playlist(...) of lines 73-79
PlaylistOf(meta, ents, trks) ==
    [id |-> meta.id, name |-> meta.name, tracks |-> TracksOf(meta, ents, trks),
     is_folder |-> meta.is_folder,
     parent_id |-> IF meta.parent_id # 0 THEN meta.parent_id ELSE NoParent]

\* The root test taken on the folder flag as well
IsRoot_NotFolder(playlist) == playlist.parent_id = NoParent /\ ~playlist.is_folder

\* A playlist goes to root_playlists (lines 84-85)
IsRoot(playlist) == playlist.parent_id = NoParent

\* The loop of lines 63-85 keeping only root playlists in all_playlists
RECURSIVE BuildFrom_RootsOnly(_, _, _, _, _)
BuildFrom_RootsOnly(metas, ents, trks, k, acc) ==
    IF k > Len(metas) THEN acc
    ELSE LET playlist == [id |-> metas[k].id, name |-> metas[k].name,
                          tracks |-> <<>>, is_folder |-> metas[k].is_folder,
                          parent_id |-> IF metas[k].parent_id # 0 THEN metas[k].parent_id
                                                                  ELSE NoParent]
         IN  BuildFrom_RootsOnly(metas, ents, trks, k + 1,
                 IF playlist.parent_id = NoParent
                 THEN [all_playlists |-> (playlist.id :> playlist) @@ acc.all_playlists,
                       root_playlists |-> Append(acc.root_playlists, playlist)]
                 ELSE acc)

\* The loop of lines 63-85 from the k-th meta on
RECURSIVE BuildFrom(_, _, _, _, _)
BuildFrom(metas, ents, trks, k, acc) ==
    IF k > Len(metas) THEN acc
    ELSE LET playlist == PlaylistOf(metas[k], ents, trks)
         IN  BuildFrom(metas, ents, trks, k + 1,
                 [all_playlists |-> (playlist.id :> playlist) @@ acc.all_playlists,
                  root_playlists |-> IF IsRoot(playlist)
                                     THEN Append(acc.root_playlists, playlist)
                                     ELSE acc.root_playlists])

EmptyTree == [returned |-> TRUE, root_playlists |-> <<>>, all_playlists |-> <<>>]
NoTree == [returned |-> FALSE, root_playlists |-> <<>>, all_playlists |-> <<>>]

\* PlaylistTree(root_playlists=..., all_playlists=...) of lines 87-89
Assemble(metas, ents, trks) ==
    LET built == BuildFrom(metas, ents, trks, 1,
                           [all_playlists |-> <<>>, root_playlists |-> <<>>])
    IN  [returned |-> TRUE, root_playlists |-> built.root_playlists,
         all_playlists |-> built.all_playlists]

--------------------------------------------------------------------------
(* rekordbox_pdb.py: RekordboxPdb._read, and parser.py: parse *)

\* RekordboxPdb._read without the validation of gap
ReadPdb_NoGapCheck(f) == [exc |-> FALSE, pos |-> HeaderLen + TableLen * Len(f.tables)]

\* RekordboxPdb(False, stream): the header is read up to gap, gap is validated,
\* and only then are the num_tables directory entries read.
ReadPdb(f) ==
    IF f.gap # 0
    THEN [exc |-> TRUE, pos |-> HeaderLen]
    ELSE [exc |-> FALSE, pos |-> HeaderLen + TableLen * Len(f.tables)]

\* The names of PageType
PageTypes ==
    {"tracks", "genres", "artists", "albums", "labels", "keys", "colors",
     "playlist_tree", "playlist_entries", "unknown_9", "unknown_10",
     "history_playlists", "history_entries", "artwork", "unknown_14", "unknown_15",
     "columns", "unknown_17", "unknown_18", "history"}

\* Table._read: resolve_enum(PageType, n) gives the member, or n itself when
\* PageType has no member of that value (the model writes n by its digits)
Table_type(n) ==
    CASE n = 0 -> "tracks"
      [] n = 7 -> "playlist_tree"
      [] n = 8 -> "playlist_entries"
      [] n = 20 -> "20"

\* _log_available_tables with the attribute error ignored
LogRaises_Never(f) == FALSE

\* _log_available_tables: table.type.value and table.type.name exist on a
\* member of PageType and raise AttributeError on an integer
LogRaises(f) == \E k \in 1..Len(f.tables) : f.tables[k].type \notin PageTypes

\* The first_page index of the first table of type t, 0 when there is none
\* (the walk then returns its empty collection)
FirstPage(f, t) ==
    LET idx == {k \in 1..Len(f.tables) : f.tables[k].type = t}
    IN  IF idx = {} THEN 0
        ELSE f.tables[CHOOSE k \in idx : \A j \in idx : k <= j].first_page

\* RekordboxParser.parse; debug is logger.isEnabledFor(logging.DEBUG)
Parse ==
    /\ pc = "idle"
    /\ parse_result = "none"
    /\ \E debug \in BOOLEAN :
          LET r == ReadPdb(file)
          IN  /\ pdb_data' = IF r.exc THEN pdb_data ELSE "RekordboxPdb"
              /\ parse_result' = IF r.exc \/ (debug /\ LogRaises(file)) THEN "False"
                                                                       ELSE "True"
              /\ io_pos' = r.pos
    /\ UNCHANGED <<file, pc, current_page, broke, playlists, entries, tracks,
                   visited, yielded, tree>>
    /\ UNCHANGED <<rowvars, sidevars, callvars>>

\* get_playlists up to the first loop test of _extract_playlist_metadata
GetPlaylists ==
    /\ pc = "idle"
    /\ \E debug \in BOOLEAN :
          LET r == ReadPdb(file)
          IN  IF pdb_data # None
              THEN /\ pc' = "playlist_tree"
                   /\ current_page' = FirstPage(file, "playlist_tree")
                   /\ UNCHANGED <<pdb_data, parse_result, io_pos, tree>>
              ELSE IF r.exc
              THEN /\ parse_result' = "False"
                   /\ io_pos' = r.pos
                   /\ tree' = EmptyTree
                   /\ pc' = "done"
                   /\ UNCHANGED <<pdb_data, current_page>>
              ELSE IF debug /\ LogRaises(file)
              THEN /\ pdb_data' = "RekordboxPdb"
                   /\ parse_result' = "False"
                   /\ io_pos' = r.pos
                   /\ tree' = EmptyTree
                   /\ pc' = "done"
                   /\ UNCHANGED current_page
              ELSE /\ pdb_data' = "RekordboxPdb"
                   /\ parse_result' = "True"
                   /\ io_pos' = r.pos
                   /\ pc' = "playlist_tree"
                   /\ current_page' = FirstPage(file, "playlist_tree")
                   /\ UNCHANGED tree
    /\ UNCHANGED <<file, broke, playlists, entries, tracks, visited, yielded>>
    /\ UNCHANGED <<rowvars, sidevars, callvars>>

--------------------------------------------------------------------------
(* parser.py: the loops of _extract_playlist_metadata, _extract_playlist_entries
   and _extract_minimal_tracks (one loop, written three times) *)

\* current_page = page_data.next_page if page_data.next_page.index > 0 else None
NextOf(page) == IF page.next_page > 0 THEN page.next_page ELSE 0

\* The walk's collection after appending items: the two lists grow at the
\* end, the dict of tracks takes tracks[id] = track in row order.
RECURSIVE PutTracks(_, _, _)
PutTracks(trks, items, k) ==
    IF k > Len(items) THEN trks
    ELSE PutTracks((items[k].key :> items[k].track) @@ trks, items, k + 1)

\* PageRef.body: the root stream is moved to len_page * index, len_page bytes
\* are read and parsed by Page._read, and the position is restored.  A read
\* past the end of the file or a non-zero page gap raises before the restore;
\* where a failed read leaves the position is the stream library's choice.
LoadFails(f, p) == p > Len(f.pages) \/ f.pages[p].gap # 0

PosAfterFailedLoad(f, p) ==
    IF p > Len(f.pages)
    THEN {f.len_page * p, f.len_page * (Len(f.pages) + 1)}
    ELSE {f.len_page * (p + 1)}

\* One pass through the body of `while current_page and current_page.index > 0`
WalkStep(t) ==
    /\ pc = t
    /\ ~broke
    /\ current_page > 0
    /\ Len(visited[t]) < MaxVisits
    /\ LET p == current_page
           page == file.pages[p]
           acc == ScanRows(t, p, page, 0, [items |-> <<>>, locs |-> <<>>, exc |-> FALSE])
       IN  IF LoadFails(file, p)
           THEN /\ broke' = TRUE
                /\ io_pos' \in PosAfterFailedLoad(file, p)
                /\ UNCHANGED <<current_page, playlists, entries, tracks, visited, yielded>>
           ELSE IF ~is_data_page(page)
           THEN /\ current_page' = NextOf(page)
                /\ visited' = [visited EXCEPT ![t] = Append(@, p)]
                /\ UNCHANGED <<broke, io_pos, playlists, entries, tracks, yielded>>
           ELSE /\ playlists' = IF t = "playlist_tree" THEN playlists \o acc.items
                                                       ELSE playlists
                /\ entries' = IF t = "playlist_entries" THEN entries \o acc.items
                                                        ELSE entries
                /\ tracks' = IF t = "tracks" THEN PutTracks(tracks, acc.items, 1)
                                             ELSE tracks
                /\ yielded' = [yielded EXCEPT ![t] = @ \o acc.locs]
                /\ visited' = [visited EXCEPT ![t] = Append(@, p)]
                /\ broke' = acc.exc
                /\ current_page' = IF acc.exc THEN current_page ELSE NextOf(page)
                /\ UNCHANGED io_pos
    /\ UNCHANGED <<file, pdb_data, parse_result, pc, tree>>
    /\ UNCHANGED <<rowvars, sidevars, callvars>>

\* A bug: a walk left through an exception ends get_playlists with an
\* empty tree
EndWalk_AbortOnFailure(t) ==
    /\ pc = t
    /\ broke \/ current_page = 0
    /\ broke' = FALSE
    /\ IF broke \/ t = "tracks"
       THEN /\ pc' = "done"
            /\ current_page' = 0
            /\ tree' = IF broke THEN EmptyTree ELSE Assemble(playlists, entries, tracks)
       ELSE /\ pc' = IF t = "playlist_tree" THEN "playlist_entries" ELSE "tracks"
            /\ current_page' = FirstPage(file, pc')
            /\ UNCHANGED tree
    /\ UNCHANGED <<file, pdb_data, parse_result, io_pos, playlists, entries, tracks,
                   visited, yielded>>
    /\ UNCHANGED <<rowvars, sidevars, callvars>>

\* The loop of walk t is left; the next walk starts at its table's first
\* page, and after the last walk the tree is built and returned.
EndWalk(t) ==
    /\ pc = t
    /\ broke \/ current_page = 0
    /\ broke' = FALSE
    /\ IF t = "playlist_tree"
       THEN /\ pc' = "playlist_entries"
            /\ current_page' = FirstPage(file, "playlist_entries")
            /\ UNCHANGED tree
       ELSE IF t = "playlist_entries"
       THEN /\ pc' = "tracks"
            /\ current_page' = FirstPage(file, "tracks")
            /\ UNCHANGED tree
       ELSE /\ pc' = "done"
            /\ current_page' = 0
            /\ tree' = Assemble(playlists, entries, tracks)
    /\ UNCHANGED <<file, pdb_data, parse_result, io_pos, playlists, entries, tracks,
                   visited, yielded>>
    /\ UNCHANGED <<rowvars, sidevars, callvars>>

--------------------------------------------------------------------------
(* The files the model reads *)

\* A row group: its presence mask and the rows at its offsets
Group(mask, rows) == [row_present_flags |-> mask, rows |-> rows]

PageOf(type, next, flags, small, large, groups) ==
    [gap |-> 0, type |-> type, next_page |-> next, page_flags |-> flags,
     num_rows_small |-> small, num_rows_large |-> large, groups |-> groups]

FileOf(gap, tables, pages) ==
    [gap |-> gap, len_page |-> 4096, tables |-> tables, pages |-> pages]

TableOf(type, first) == [type |-> type, first_page |-> first]

(* Chain files: one table, MaxPages pages of any kind linked in any way. *)

\* The row at slot i of group g of page p: every field tells the place
PlaceRow(p, g, i) ==
    LET n == 100 * p + 16 * g + i
    IN  Row(TRUE, <<n, n, n, n, n % 2>>, <<"a", "b">>)

PlaceRows(p, g) == [i \in {0, 1, 2, 15} |-> PlaceRow(p, g, i)]

PageKinds == {"rows", "stale", "index", "torn", "alien", "foreign"}

ChainPage(t, p, kind, next) ==
    CASE kind = "rows" ->
            \* a data page with two rows, both present
            PageOf(t, next, 36, 2, 0, <<Group(3, PlaceRows(p, 0))>>)
      [] kind = "stale" ->
            \* seventeen rows in two groups; only slots 0, 2, 15 and 16 are present
            PageOf(t, next, 52, 1, 17,
                   <<Group(32773, PlaceRows(p, 0)), Group(1, PlaceRows(p, 1))>>)
      [] kind = "index" ->
            \* a non-data page (page_flags bit 6 set) over the same bytes
            PageOf(t, next, 100, 2, 0, <<Group(3, PlaceRows(p, 0))>>)
      [] kind = "torn" ->
            \* three present rows, the middle one running past the page's end
            PageOf(t, next, 36, 3, LargeSentinel,
                   <<Group(7, [PlaceRows(p, 0) EXCEPT ![1].ok = FALSE])>>)
      [] kind = "alien" ->
            \* a data page whose header declares a type without a row decoder
            PageOf("columns", next, 36, 2, 0, <<Group(3, PlaceRows(p, 0))>>)
      [] kind = "foreign" ->
            \* a data page whose header declares history_entries, with two
            \* present rows of three different words
            PageOf("history_entries", next, 36, 2, 0,
                   <<Group(3, [i \in {0, 1} |->
                                 Row(TRUE, <<10 * p + i, 1, 2, 0, 0>>, <<"", "">>)])>>)

\* Every kind of page linked in every way under the playlist_entries table;
\* under the other two tables, whose walks are the same loop written again,
\* pages of rows, non-data pages and pages with a torn row
KindsFor(t) == IF t = "playlist_entries" THEN PageKinds ELSE {"rows", "index", "torn"}

\* c gives each page its kind and its next_page index
ChainFile(t, first, c) ==
    FileOf(0, <<TableOf(t, first)>>,
           [p \in 1..MaxPages |-> ChainPage(t, p, c[p][1], c[p][2])])

\* A table whose first_page index is 0
EmptyTableFile(t) == ChainFile(t, 0, [p \in 1..MaxPages |-> <<"rows", 0>>])

(* Content files: the three tables, one data page each. *)

ContentTables ==
    <<TableOf("playlist_tree", 1), TableOf("playlist_entries", 2), TableOf("tracks", 3)>>

PlaylistNames == <<"House", "Techno", "Disco", "Dub", "Jazz">>
TrackTitles == <<"A", "B", "C">>

\* A page whose rows 0..Len(raws)-1 are raws, present as mask says
RowsPage(type, raws, mask) ==
    PageOf(type, 0, 36, Len(raws), 0,
           IF Len(raws) = 0 THEN <<>>
           ELSE <<Group(mask, [i \in 0..(Len(raws) - 1) |-> raws[i + 1]])>>)

MetaRaw(k, id, parent, folder) ==
    Row(TRUE, <<parent, 0, k, id, folder>>, <<PlaylistNames[k], "">>)

EntryRaw(index, track, playlist) ==
    Row(TRUE, <<index, track, playlist, 0, 0>>, <<"", "">>)

TrackRaw(id) ==
    Row(TRUE, <<id, 0, 0, 0, 0>>, <<TrackTitles[id], "Contents/" \o TrackTitles[id]>>)

AllTracksPage == RowsPage("tracks", [k \in 1..3 |-> TrackRaw(k)], 7)

\* Track 2's row is still on the page but no longer present
DeletedTrackPage == RowsPage("tracks", [k \in 1..3 |-> TrackRaw(k)], 5)

MetaChoices == {1, 2} \X {0, 1, 7} \X {0, 2}

\* n playlist_tree rows, c giving each its id, parent_id and folder word;
\* fixed entries and tracks
MetaFile(gap, n, c) ==
    FileOf(gap, ContentTables,
           <<RowsPage("playlist_tree",
                      [k \in 1..n |-> MetaRaw(k, c[k][1], c[k][2], c[k][3])],
                      Pow2(n) - 1),
             RowsPage("playlist_entries",
                      <<EntryRaw(0, 1, 1), EntryRaw(0, 2, 2), EntryRaw(1, 2, 1)>>, 7),
             AllTracksPage>>)

EntryChoices == {1, 2} \X (0..2)

\* Two root playlists; MaxEntries entries, c giving each its playlist and
\* entry_index, the k-th entry naming track ((k - 1) mod 3) + 1
EntryFile(c, trackpage) ==
    FileOf(0, ContentTables,
           <<RowsPage("playlist_tree", <<MetaRaw(1, 1, 0, 0), MetaRaw(2, 2, 0, 0)>>, 3),
             RowsPage("playlist_entries",
                      [k \in 1..MaxEntries |->
                          EntryRaw(c[k][2], ((k - 1) % 3) + 1, c[k][1])],
                      Pow2(MaxEntries) - 1),
             trackpage>>)

\* The page of table t in a content file of three rows a table
WholePage(t) ==
    CASE t = "playlist_tree" ->
            RowsPage(t, <<MetaRaw(1, 1, 0, 2), MetaRaw(2, 2, 1, 0), MetaRaw(3, 3, 0, 0)>>, 7)
      [] t = "playlist_entries" ->
            RowsPage(t, <<EntryRaw(0, 1, 2), EntryRaw(1, 2, 2), EntryRaw(0, 3, 3)>>, 7)
      [] t = "tracks" -> AllTracksPage

Breaks == {"torn0", "torn1", "torn2", "next_page", "first_page"}

\* The page of table t broken: one of its rows runs past the page's end, or
\* its next_page index is past the end of the file
BrokenPage(t, how) ==
    CASE how = "torn0" -> [WholePage(t) EXCEPT !.groups[1].rows[0].ok = FALSE]
      [] how = "torn1" -> [WholePage(t) EXCEPT !.groups[1].rows[1].ok = FALSE]
      [] how = "torn2" -> [WholePage(t) EXCEPT !.groups[1].rows[2].ok = FALSE]
      [] how = "next_page" -> [WholePage(t) EXCEPT !.next_page = 9]
      [] how = "first_page" -> WholePage(t)

\* A content file, the walk of table t failing: at a row, at the load of
\* the page after its page, or at the load of its first page
BrokenFile(t, how) ==
    FileOf(0,
           [k \in 1..3 |->
               IF ContentTables[k].type = t /\ how = "first_page"
               THEN TableOf(t, 9) ELSE ContentTables[k]],
           [k \in 1..3 |->
               IF ContentTables[k].type = t THEN BrokenPage(t, how)
               ELSE WholePage(ContentTables[k].type)])

\* A page whose header declares a type PageType does not have, with two
\* present rows
UnknownTypePage == PageOf(Table_type(20), 0, 36, 2, 0, <<Group(3, PlaceRows(4, 0))>>)

\* A content file with one more directory entry, of a type PageType does
\* not have, at place at of the directory; its page is page 4, and the
\* chain of table via (if any) leads through that page
UnknownTypeFile(at, via) ==
    FileOf(0,
           [k \in 1..4 |->
               IF k = at THEN TableOf(Table_type(20), 4)
               ELSE ContentTables[IF k < at THEN k ELSE k - 1]],
           [k \in 1..4 |->
               IF k = 4 THEN UnknownTypePage
               ELSE IF ContentTables[k].type = via
               THEN [WholePage(via) EXCEPT !.next_page = 4]
               ELSE WholePage(ContentTables[k].type)])

\* The file is one of: a chain file; a file with an empty table; a content
\* file of any playlist rows; one of any entries, with all tracks or with
\* track 2 deleted; a file whose header gap is not zero; a content file with
\* one failing table
InputFile(f) ==
    \/ \E t \in Walks :
          \E c \in [1..MaxPages -> KindsFor(t) \X (0..(MaxPages + 1))] :
              f = ChainFile(t, 1, c)
    \/ \E t \in Walks : f = EmptyTableFile(t)
    \/ \E n \in 0..MaxMetas : \E c \in [1..n -> MetaChoices] : f = MetaFile(0, n, c)
    \/ \E c \in [1..MaxEntries -> EntryChoices],
           trackpage \in {AllTracksPage, DeletedTrackPage} : f = EntryFile(c, trackpage)
    \/ \E n \in 0..1, gap \in {1, 16777216} :
          \E c \in [1..n -> MetaChoices] : f = MetaFile(gap, n, c)
    \/ \E t \in Walks, how \in Breaks : f = BrokenFile(t, how)

--------------------------------------------------------------------------
(* rekordbox_pdb.py at the level of bytes: one page, its stream and its
   lazily read row index.  The page's stream is the BytesIO over the
   len_page bytes PageRef.body cut out of the file. *)

\* len_page of the generated pages: header, a heap of two 12-byte rows, two groups
LenPage == PageHeaderLen + 24 + 2 * GroupLen

\* read_u1, read_u2le, read_u4le at address a of bytes b
U8(b, a) == b[a]
U16(b, a) == b[a] + 256 * b[a + 1]
U32(b, a) == b[a] + 256 * b[a + 1] + 65536 * b[a + 2] + 16777216 * b[a + 3]

\* resolve_enum(PageType, n) for the types the generated pages declare
PageTypeName(n) ==
    CASE n = 0 -> "tracks"
      [] n = 7 -> "playlist_tree"
      [] n = 8 -> "playlist_entries"
      [] n = 12 -> "history_entries"
      [] n = 16 -> "columns"
      [] OTHER -> "unknown"

\* Page._read: the fields of the 40-byte header the model uses
Page_read(b) ==
    [gap |-> U32(b, 0), page_index |-> U32(b, 4), type |-> PageTypeName(U32(b, 8)),
     next_page |-> U32(b, 12), num_rows_small |-> U8(b, 24), page_flags |-> U8(b, 27),
     num_rows_large |-> U16(b, 34)]

\* The header of the page under study
hdr == Page_read(raw_page.bytes)

\* Results of a property read: the object after it, whether it raised, its value
Ret(o, v) == [o |-> o, exc |-> FALSE, v |-> v]
Raise(o) == [o |-> o, exc |-> TRUE, v |-> 0]

\* self._io.seek(n): BytesIO refuses a negative position and stays where it is
Seek(o, n) == IF n < 0 THEN Raise(o) ELSE Ret([o EXCEPT !.pos = n], n)

\* self._io.seek(_pos) left out
SeekBack_Lost(o, saved) == o

\* self._io.seek(_pos) at the end of a lazy instance
SeekBack(o, saved) == [o EXCEPT !.pos = saved]

\* Where a read that runs out of bytes leaves the stream: where it was, or
\* behind whatever bytes were left
FailPos(pos) ==
    IF raw_page.short_read_moves /\ pos < LenPage THEN LenPage ELSE pos

read_u2le(o) ==
    IF o.pos + 2 > LenPage THEN Raise([o EXCEPT !.pos = FailPos(o.pos)])
    ELSE Ret([o EXCEPT !.pos = @ + 2], U16(raw_page.bytes, o.pos))

\* A bug: a read past the end of the page's bytes gives 0 for what is not there
read_u4le_Unchecked(o) ==
    Ret([o EXCEPT !.pos = @ + 4],
        IF o.pos + 4 > LenPage THEN 0 ELSE U32(raw_page.bytes, o.pos))

read_u4le(o) ==
    IF o.pos + 4 > LenPage THEN Raise([o EXCEPT !.pos = FailPos(o.pos)])
    ELSE Ret([o EXCEPT !.pos = @ + 4], U32(raw_page.bytes, o.pos))

\* n consecutive read_u4le from step r on, stopping at the first that raises;
\* r.v collects the words read
RECURSIVE ReadWords(_, _)
ReadWords(r, n) ==
    IF r.exc \/ n = 0 THEN r
    ELSE ReadWords([o |-> read_u4le(r.o).o, exc |-> read_u4le(r.o).exc,
                    v |-> Append(r.v, read_u4le(r.o).v)], n - 1)

\* self._io.seek(at) and then self._io.read_u2le(): s is the seek's result
ThenReadU2(s) == IF s.exc THEN s ELSE read_u2le(s.o)

\* RowGroup.base
RowGroup_base(g) == LenPage - g * GroupLen

\* RowGroup.row_present_flags, lines 400-402: r is the result of seek and read
KeepFlags(o, g, r) ==
    IF r.exc THEN r
    ELSE Ret(SeekBack([r.o EXCEPT !.m_row_present_flags = (g :> r.v) @@ @], o.pos), r.v)

\* RowGroup.row_present_flags
RowGroup_row_present_flags(o, g) ==
    IF g \in DOMAIN o.m_row_present_flags THEN Ret(o, o.m_row_present_flags[g])
    ELSE KeepFlags(o, g, ThenReadU2(Seek(o, RowGroup_base(g) - 4)))

\* RowRef.present, line 1104: f is the result of row_present_flags
KeepPresent(g, i, f) ==
    IF f.exc THEN f
    ELSE Ret([f.o EXCEPT !.m_present = ((16 * g + i) :> (Bit(f.v, i) # 0)) @@ @],
             Bit(f.v, i) # 0)

\* RowRef.present with the mask ignored
RowRef_present_Always(o, g, i) ==
    Ret([o EXCEPT !.m_present = ((16 * g + i) :> TRUE) @@ @], TRUE)

\* RowRef.present
RowRef_present(o, g, i) ==
    IF (16 * g + i) \in DOMAIN o.m_present THEN Ret(o, o.m_present[16 * g + i])
    ELSE KeepPresent(g, i, RowGroup_row_present_flags(o, g))

\* RowRef.ofs_row, lines 1117-1119: r is the result of seek and read
KeepOfsRow(o, g, i, r) ==
    IF r.exc THEN r
    ELSE Ret(SeekBack([r.o EXCEPT !.m_ofs_row = ((16 * g + i) :> r.v) @@ @], o.pos), r.v)

\* RowRef.ofs_row
RowRef_ofs_row(o, g, i) ==
    IF (16 * g + i) \in DOMAIN o.m_ofs_row THEN Ret(o, o.m_ofs_row[16 * g + i])
    ELSE KeepOfsRow(o, g, i, ThenReadU2(Seek(o, RowGroup_base(g) - (6 + 2 * i))))

\* Page.heap_pos: the stream position at the first read, kept from then on
Page_heap_pos(o) ==
    IF o.m_heap_pos >= 0 THEN Ret(o, o.m_heap_pos)
    ELSE Ret([o EXCEPT !.m_heap_pos = o.pos], o.pos)

\* RowRef.row_base, line 1034: a is the result of ofs_row, h of heap_pos
KeepRowBase(g, i, a, h) ==
    Ret([h.o EXCEPT !.m_row_base = ((16 * g + i) :> (a.v + h.v)) @@ @], a.v + h.v)

\* RowRef.row_base, line 1034: ofs_row is read first, heap_pos second
AddHeapPos(g, i, a) ==
    IF a.exc THEN a ELSE KeepRowBase(g, i, a, Page_heap_pos(a.o))

\* RowRef.row_base
RowRef_row_base(o, g, i) ==
    IF (16 * g + i) \in DOMAIN o.m_row_base THEN Ret(o, o.m_row_base[16 * g + i])
    ELSE AddHeapPos(g, i, RowRef_ofs_row(o, g, i))

\* The row class built from the three words read: r is the result of the reads
ReadRow(cls, r) ==
    IF r.exc THEN r
    ELSE Ret(r.o, CASE cls = "PlaylistEntryRow" ->
                         PlaylistEntryRow(Row(TRUE, r.v \o <<0, 0>>, <<"", "">>))
                    [] cls = "HistoryEntryRow" ->
                         HistoryEntryRow(Row(TRUE, r.v \o <<0, 0>>, <<"", "">>)))

\* RowRef.body, lines 1067-1093: r is the row read; the body is kept and the
\* position restored to saved
KeepBody(g, i, saved, r) ==
    IF r.exc THEN r
    ELSE Ret(SeekBack([r.o EXCEPT !.m_body = ((16 * g + i) :> r.v) @@ @], saved), r.v)

\* RowRef.body, lines 1066-1091: s is the result of seek(row_base).  A page
\* type without a row class reads nothing; rows_read records the slots a row
\* class was constructed for.
DecodeAt(g, i, saved, s) ==
    IF s.exc THEN s
    ELSE IF RowClassOf(hdr.type) = None THEN Ret(SeekBack(s.o, saved), NoBody)
    ELSE KeepBody(g, i, saved,
                  ReadRow(RowClassOf(hdr.type),
                          ReadWords(Ret([s.o EXCEPT !.rows_read = @ \cup {16 * g + i}],
                                        <<>>), 3)))

\* RowRef.body, line 1065: b is the result of row_base
SeekRow(g, i, saved, b) ==
    IF b.exc THEN b ELSE DecodeAt(g, i, saved, Seek(b.o, b.v))

\* RowRef.body, lines 1063-1065: p is the result of present
ReadBody(g, i, p) ==
    IF p.exc THEN p
    ELSE IF ~p.v THEN Ret(p.o, NoBody)
    ELSE SeekRow(g, i, p.o.pos, RowRef_row_base(p.o, g, i))

\* RowRef.body
RowRef_body(o, g, i) ==
    IF (16 * g + i) \in DOMAIN o.m_body THEN Ret(o, o.m_body[16 * g + i])
    ELSE ReadBody(g, i, RowRef_present(o, g, i))

\* parser.py 186-195 on the page's own object: what the loop body makes of
\* the body b of slot k, which was found present
TakeRow(k, acc, b) ==
    IF b.exc
    THEN [acc EXCEPT !.o = b.o, !.exc = TRUE, !.reported = Append(@, k)]
    ELSE IF b.v = NoBody
    THEN [acc EXCEPT !.o = b.o, !.reported = Append(@, k)]
    ELSE IF ~HasAttrs("playlist_entries", b.v)
    THEN [acc EXCEPT !.o = b.o, !.exc = TRUE, !.reported = Append(@, k)]
    ELSE [acc EXCEPT !.o = b.o, !.reported = Append(@, k), !.rows = Append(@, b.v)]

\* `if row_ref.present and row_ref.body` for slot k, p being row_ref.present
TestRow(k, acc, p) ==
    IF p.exc THEN [acc EXCEPT !.o = p.o, !.exc = TRUE]
    ELSE IF ~p.v THEN [acc EXCEPT !.o = p.o]
    ELSE TakeRow(k, acc, RowRef_body(p.o, k \div 16, k % 16))

\* The body of the loops over row_groups and rows, for slot k.
\* acc = [o, reported, rows, exc]: the slots found present, the bodies
\* appended, and whether an exception was raised.
ScanSlot(k, acc) == TestRow(k, acc, RowRef_present(acc.o, k \div 16, k % 16))

\* parser.py 184-185: the loops from slot k on; an exception ends them
RECURSIVE ScanPage(_, _)
ScanPage(k, acc) ==
    IF acc.exc \/ k >= 16 * num_row_groups(hdr) THEN acc
    ELSE ScanPage(k + 1, ScanSlot(k, acc))

\* The Page right after Page(_io, ...): nothing cached, the stream behind the header
NewPage ==
    [pos |-> PageHeaderLen, m_heap_pos |-> 0 - 1, m_row_present_flags |-> <<>>,
     m_present |-> <<>>, m_ofs_row |-> <<>>, m_row_base |-> <<>>, m_body |-> <<>>,
     rows_read |-> {}]

NotScanned == [done |-> FALSE, reported |-> <<>>, rows |-> <<>>, exc |-> FALSE]

PropertyNames == {"present", "ofs_row", "row_base", "body", "heap_pos"}

\* Any caller reads one property of the row at slot i of group g (the row
\* groups exist on data pages only: Page.row_groups)
ReadProperty(name, g, i) ==
    /\ accesses < MaxAccesses
    /\ is_data_page(hdr)
    /\ g < num_row_groups(hdr)
    /\ obj' = CASE name = "present" -> RowRef_present(obj, g, i).o
                [] name = "ofs_row" -> RowRef_ofs_row(obj, g, i).o
                [] name = "row_base" -> RowRef_row_base(obj, g, i).o
                [] name = "body" -> RowRef_body(obj, g, i).o
                [] name = "heap_pos" -> Page_heap_pos(obj).o
    /\ accesses' = accesses + 1
    /\ UNCHANGED <<raw_page, scan>>
    /\ UNCHANGED <<pipevars, sidevars, callvars>>

\* What the walk keeps of the loops' result
ScanResult(acc) ==
    [done |-> TRUE, reported |-> acc.reported, rows |-> acc.rows, exc |-> acc.exc]

\* The walk's pass over the page: parser.py 175-195
ScanDataPage ==
    /\ ~scan.done
    /\ IF ~is_data_page(hdr)
       THEN /\ scan' = [NotScanned EXCEPT !.done = TRUE]
            /\ obj' = obj
       ELSE \E acc \in {ScanPage(0, [o |-> obj, reported |-> <<>>, rows |-> <<>>,
                                      exc |-> FALSE])} :
                /\ scan' = ScanResult(acc)
                /\ obj' = acc.o
    /\ UNCHANGED <<raw_page, accesses>>
    /\ UNCHANGED <<pipevars, sidevars, callvars>>

(* The pages the model reads *)

\* The byte at address a of a page: header fields, a heap whose six words
\* are 1..6, and a row index of two groups holding masks and ofs
PageBytes(type, flags, small, large, masks, ofs) ==
    [a \in 0..(LenPage - 1) |->
        LET d == LenPage - a
            g == (d - 1) \div GroupLen
            r == d - GroupLen * g
            i == (r - 5) \div 2
            heap_end == LenPage - 2 * GroupLen
        IN  CASE a = 8 -> type
              [] a = 24 -> small
              [] a = 27 -> flags
              [] a = 34 -> large % 256
              [] a = 35 -> large \div 256
              [] a >= PageHeaderLen /\ a < heap_end ->
                    IF a % 4 = 0 THEN ((a - PageHeaderLen) \div 4) + 1 ELSE 0
              [] a >= heap_end /\ r \in {3, 4} ->
                    IF r = 4 THEN masks[g + 1] % 256 ELSE masks[g + 1] \div 256
              [] a >= heap_end /\ r >= 5 ->
                    IF r % 2 = 0 THEN ofs[16 * g + i] % 256 ELSE ofs[16 * g + i] \div 256
              [] OTHER -> 0]

\* Row offsets: the two rows of the heap in turn; or slot 1 of each group
\* pointing so close to the page's end that its row is cut off; or far past it
Offsets(style) ==
    [k \in 0..31 |->
        IF k % 16 = 1 /\ style = "torn" THEN 88
        ELSE IF k % 16 = 1 /\ style = "far" THEN 65535
        ELSE 12 * (k % 2)]

RowCounts == {<<0, 0>>, <<2, 0>>, <<1, 17>>, <<2, LargeSentinel>>, <<17, 2>>, <<16, 0>>}
Masks == {<<0, 0>>, <<3, 1>>, <<32773, 2>>, <<65535, 65535>>}

PageAs(bytes, moves) == [bytes |-> bytes, short_read_moves |-> moves]

\* Pages of playlist_entries whose rows all lie in the heap; the same with a
\* row cut off by the page's end, under both behaviours of a short read;
\* pages of other types; a non-data page; and a page that claims sixty rows,
\* so that groups 2 and 3 of its index lie over the heap and the header
IndexPages ==
    { PageAs(PageBytes(8, 36, n[1], n[2], m, Offsets("rows")), FALSE) :
        n \in RowCounts, m \in Masks }
    \cup { PageAs(PageBytes(8, 36, n[1], n[2], m, Offsets(style)), moves) :
              n \in RowCounts \ {<<0, 0>>}, m \in Masks \ {<<0, 0>>},
              style \in {"torn", "far"}, moves \in BOOLEAN }
    \cup { PageAs(PageBytes(type, 36, 1, 17, <<32773, 2>>, Offsets("rows")), FALSE) :
              type \in {9, 12, 16} }
    \cup { PageAs(PageBytes(8, 100, 2, 0, <<3, 1>>, Offsets("rows")), FALSE) }
    \cup { PageAs(PageBytes(8, 36, 60, 0, <<3, 1>>, Offsets("rows")), FALSE) }

\* Slots a caller may pick
SampleSlots == {1, 15}

NoPage == PageAs(<<>>, FALSE)

--------------------------------------------------------------------------
(* rekordbox_pdb.py: DeviceSqlString *)

\* A stream is [bytes, pos, moves]: pos counts from 0; moves says whether a
\* read past the end leaves the position at the end (the stream library
\* either reads what is left and then raises, or raises before reading)
StrRet(io, v) == [io |-> io, exc |-> FALSE, v |-> v]
StrRaise(io) == [io |-> io, exc |-> TRUE, v |-> <<>>]

\* Where a read that runs out of bytes leaves the stream: where it was, or
\* behind whatever bytes were left
AfterShortRead(io) ==
    IF io.moves /\ io.pos < Len(io.bytes) THEN [io EXCEPT !.pos = Len(io.bytes)] ELSE io

\* KaitaiStream.read_bytes(n): ValueError when n < 0, EOFError when fewer
\* than n bytes are left
io_read_bytes(io, n) ==
    IF n < 0 THEN StrRaise(io)
    ELSE IF io.pos + n > Len(io.bytes) THEN StrRaise(AfterShortRead(io))
         ELSE StrRet([io EXCEPT !.pos = @ + n], SubSeq(io.bytes, io.pos + 1, io.pos + n))

io_read_u1(io) ==
    IF io.pos + 1 > Len(io.bytes) THEN StrRaise(io)
    ELSE StrRet([io EXCEPT !.pos = @ + 1], io.bytes[io.pos + 1])

\* A short read of a u16 raises after the stream took what was left
io_read_u2le(io) ==
    IF io.pos + 2 > Len(io.bytes) THEN StrRaise(AfterShortRead(io))
    ELSE StrRet([io EXCEPT !.pos = @ + 2],
                io.bytes[io.pos + 1] + 256 * io.bytes[io.pos + 2])

\* bytes.decode("ASCII"): a text is the sequence of its code points
decode_ascii(r) ==
    IF r.exc THEN r
    ELSE IF \E k \in 1..Len(r.v) : r.v[k] > 127 THEN StrRaise(r.io)
    ELSE StrRet(r.io, r.v)

IsHighSurrogate(u) == u >= 55296 /\ u <= 56319
IsLowSurrogate(u) == u >= 56320 /\ u <= 57343

CodeUnits(bs) == [k \in 1..(Len(bs) \div 2) |-> bs[2 * k - 1] + 256 * bs[2 * k]]

\* The code points of a sequence of UTF-16 code units; <<-1>> when a
\* surrogate stands alone
RECURSIVE CodePoints(_, _, _)
CodePoints(u, k, acc) ==
    IF k > Len(u) THEN acc
    ELSE IF IsHighSurrogate(u[k])
         THEN IF k < Len(u) /\ IsLowSurrogate(u[k + 1])
              THEN CodePoints(u, k + 2,
                     Append(acc, 65536 + (u[k] - 55296) * 1024 + (u[k + 1] - 56320)))
              ELSE <<0 - 1>>
    ELSE IF IsLowSurrogate(u[k]) THEN <<0 - 1>>
    ELSE CodePoints(u, k + 1, Append(acc, u[k]))

\* bytes.decode("UTF-16LE"): an odd number of bytes is truncated data
decode_utf16le(r) ==
    IF r.exc THEN r
    ELSE IF Len(r.v) % 2 = 1 THEN StrRaise(r.io)
    ELSE IF CodePoints(CodeUnits(r.v), 1, <<>>) = <<0 - 1>> THEN StrRaise(r.io)
    ELSE StrRet(r.io, CodePoints(CodeUnits(r.v), 1, <<>>))

\* A bug: the tag byte taken as the length
DeviceSqlShortAscii_length_Unshifted(length_and_kind) == length_and_kind

\* DeviceSqlShortAscii.length
DeviceSqlShortAscii_length(length_and_kind) == length_and_kind \div 2

\* DeviceSqlShortAscii._read
DeviceSqlShortAscii(length_and_kind, io) ==
    decode_ascii(io_read_bytes(io, DeviceSqlShortAscii_length(length_and_kind) - 1))

\* The text of a long string once its length word is read: one byte
\* skipped, then length - 4 bytes
LongText(len, pad) ==
    IF len.exc THEN len
    ELSE IF pad.exc THEN pad
    ELSE io_read_bytes(pad.io, len.v - 4)

LongBody(len) == LongText(len, IF len.exc THEN len ELSE io_read_u1(len.io))

\* DeviceSqlLongAscii._read
DeviceSqlLongAscii(io) == decode_ascii(LongBody(io_read_u2le(io)))

\* DeviceSqlLongUtf16le._read
DeviceSqlLongUtf16le(io) == decode_utf16le(LongBody(io_read_u2le(io)))

\* DeviceSqlString._read, after length_and_kind is read
StringBody(tag) ==
    IF tag.exc THEN tag
    ELSE IF tag.v = 64 THEN DeviceSqlLongAscii(tag.io)
    ELSE IF tag.v = 144 THEN DeviceSqlLongUtf16le(tag.io)
    ELSE DeviceSqlShortAscii(tag.v, tag.io)

DeviceSqlString(io) == StringBody(io_read_u1(io))

\* The constructor call: the string is decoded from the stream at its position
DecodeString ==
    /\ codec.at = "encoded"
    /\ \E r \in {DeviceSqlString(codec.io)} :
          codec' = [codec EXCEPT !.at = "decoded", !.io = r.io, !.exc = r.exc, !.out = r.v]
    /\ UNCHANGED <<pipevars, rowvars, anlz, walkers, callvars>>

(* The strings the model decodes *)

\* NUL, A, DEL, e acute, the euro sign, a musical note outside the BMP
Chars == {0, 65, 127, 233, 8364, 127925}

\* Texts whose short form has tag 64 or 65, 144 or 145, 254 or 255
LongRuns == {[k \in 1..n |-> 65] : n \in {31, 71, 126}}

Texts == UNION {[1..n -> Chars] : n \in 0..MaxText} \cup LongRuns

IsAscii(text) == \A k \in 1..Len(text) : text[k] < 128

\* str.encode("UTF-16LE")
RECURSIVE Utf16leBytes(_, _)
Utf16leBytes(text, k) ==
    IF k > Len(text) THEN <<>>
    ELSE IF text[k] < 65536
         THEN <<text[k] % 256, text[k] \div 256>> \o Utf16leBytes(text, k + 1)
         ELSE <<((text[k] - 65536) \div 1024) % 256,
                216 + ((text[k] - 65536) \div 1024) \div 256,
                ((text[k] - 65536) % 1024) % 256,
                220 + ((text[k] - 65536) % 1024) \div 256>> \o Utf16leBytes(text, k + 1)

\* The short form: a tag byte whose upper seven bits are the length plus
\* one, then the text's bytes
ShortForm(low, text) == <<2 * (Len(text) + 1) + low>> \o text

\* A long form: the tag, the length of body and sub-header, a byte, the body
LongForm(tag, pad, body) ==
    <<tag, (Len(body) + 4) % 256, (Len(body) + 4) \div 256, pad>> \o body

\* What follows the string on the page
Trailer == <<66, 0>>

Encoded(text, form, bytes, moves) ==
    [at |-> "encoded", text |-> text, form |-> form,
     io |-> [bytes |-> bytes \o Trailer, pos |-> 0, moves |-> moves],
     exc |-> FALSE, out |-> <<>>]

NoCodec == [at |-> "idle", text |-> <<>>, form |-> "none",
            io |-> [bytes |-> <<>>, pos |-> 0, moves |-> FALSE],
            exc |-> FALSE, out |-> <<>>]

\* A text in one of the forms it has
EncodedString(c) ==
    \E text \in Texts, moves \in BOOLEAN :
        \/ /\ IsAscii(text)
           /\ \E low \in {0, 1} : c = Encoded(text, "short", ShortForm(low, text), moves)
        \/ /\ IsAscii(text)
           /\ \E pad \in {0, 3} :
                 c = Encoded(text, "long_ascii", LongForm(64, pad, text), moves)
        \/ /\ Len(text) <= 31
           /\ \E pad \in {0, 3} :
              c = Encoded(text, "long_utf16le",
                          LongForm(144, pad, Utf16leBytes(text, 1)), moves)

(* Strings at an offset of a row: TrackRow.title, TrackRow.file_path seek
   the page's stream to row_base + ofs_strings[k] and decode there *)

\* What lies on the page before the string
Lead == <<7, 7>>

\* The forms a text has
FormsOf(text) ==
    (IF IsAscii(text)
     THEN {ShortForm(0, text), ShortForm(1, text), LongForm(64, 0, text)} ELSE {})
        \cup (IF Len(text) <= 31 THEN {LongForm(144, 0, Utf16leBytes(text, 1))} ELSE {})

\* The page's stream after seek(row_base + ofs_strings[k])
Placed(text, how, bytes, pos, moves) ==
    [at |-> "encoded", text |-> text, form |-> how,
     io |-> [bytes |-> bytes, pos |-> pos, moves |-> moves],
     exc |-> FALSE, out |-> <<>>]

\* A string that lies whole on its page; one the end of the page cuts after
\* n of its bytes; one whose offset points past the end of the page
StringOnPage(c) ==
    \E text \in Texts, moves \in BOOLEAN :
        \E b \in FormsOf(text) :
            \/ c = Placed(text, "whole", Lead \o b \o Trailer, Len(Lead), moves)
            \/ \E n \in 0..(Len(b) - 1) :
                  c = Placed(text, "cut", Lead \o SubSeq(b, 1, n), Len(Lead), moves)
            \/ \E far \in {1, 65535} :
                  c = Placed(text, "outside", Lead \o b, Len(Lead \o b) + far, moves)

--------------------------------------------------------------------------
(* rekordbox_anlz.py: RekordboxAnlz, TaggedSection, SongStructureTag *)

Magic == <<80, 77, 65, 73>>
SongStructureFourcc == 1347638089

\* SectionTags
SectionTags ==
    {1346588466, 1346588482, 1347441736, 1347507290, SongStructureFourcc, 1347830354,
     1347895638, 1347900978, 1347900979, 1347900980, 1347900981, 1347900982, 1347900983}

U16BE(b, a) == 256 * b[a + 1] + b[a + 2]
U32BE(b, a) == 16777216 * b[a + 1] + 65536 * b[a + 2] + 256 * b[a + 3] + b[a + 4]
S32BE(b, a) ==
    16777216 * (IF b[a + 1] >= 128 THEN b[a + 1] - 256 ELSE b[a + 1])
        + 65536 * b[a + 2] + 256 * b[a + 3] + b[a + 4]

Raised == [exc |-> TRUE]

\* a ^ b on bytes
RECURSIVE XorByte(_, _, _)
XorByte(a, b, n) ==
    IF n = 0 THEN 0
    ELSE ((a + b) % 2) + 2 * XorByte(a \div 2, b \div 2, n - 1)

\* KaitaiStream.process_xor_many
process_xor_many(data, key) ==
    [k \in 1..Len(data) |-> XorByte(data[k], key[((k - 1) % Len(key)) + 1], 8)]

\* struct.pack('19b', ...) taking unsigned bytes
pack_19b_Unsigned(values) ==
    [exc |-> FALSE, v |-> [k \in 1..Len(values) |-> values[k] % 256]]

\* struct.pack('19b', ...): every value is a signed char, or struct.error
pack_19b(values) ==
    IF \E k \in 1..Len(values) : values[k] < 0 - 128 \/ values[k] > 127
    THEN Raised
    ELSE [exc |-> FALSE, v |-> [k \in 1..Len(values) |-> (values[k] + 256) % 256]]

MaskBase ==
    <<203, 225, 238, 250, 229, 238, 173, 238, 233, 210, 233, 235, 225, 233, 243, 232,
      233, 244, 225>>

\* SongStructureTag.mask, c being len_entries
SongStructureTag_mask(c) == pack_19b([k \in 1..19 |-> MaskBase[k] + c])

\* SongStructureBody._read and SongStructureEntry._read: 14 bytes, then 24
\* bytes for every entry
SongStructureBody(b, len_entries) ==
    IF Len(b) < 14 + 24 * len_entries THEN Raised
    ELSE [exc |-> FALSE, mood |-> U16BE(b, 0), end_beat |-> U16BE(b, 8),
          raw_bank |-> b[13],
          entries |-> [k \in 1..len_entries |->
                          [index |-> U16BE(b, 14 + 24 * (k - 1)),
                           beat |-> U16BE(b, 16 + 24 * (k - 1)),
                           kind |-> U16BE(b, 18 + 24 * (k - 1))]]]

\* The body parsed from the raw body under the key
ParseUnder(b, raw_mood, key) ==
    IF key.exc THEN Raised
    ELSE [exc |-> FALSE, cls |-> "SongStructureTag", raw_mood |-> raw_mood,
          is_masked |-> raw_mood > 20,
          raw_body |-> process_xor_many(SubSeq(b, 7, Len(b)), key.v),
          body |-> SongStructureBody(process_xor_many(SubSeq(b, 7, Len(b)), key.v),
                                     U16BE(b, 4))]

\* A body that did not parse raises out of the tag
RaiseInner(tag) == IF tag.exc \/ tag.body.exc THEN Raised ELSE tag

\* SongStructureTag._read on the section's body b; raw_mood reads the u16
\* at offset 6
SongStructureTag(b) ==
    IF Len(b) < 8 THEN Raised
    ELSE RaiseInner(ParseUnder(b, U16BE(b, 6),
                       IF U16BE(b, 6) > 20 THEN SongStructureTag_mask(U16BE(b, 4))
                       ELSE [exc |-> FALSE, v |-> <<0>>]))

\* A bug: a fourcc outside SectionTags refused
SectionBody_KnownOnly(fourcc, raw) ==
    IF fourcc = SongStructureFourcc THEN SongStructureTag(raw)
    ELSE Raised

\* TaggedSection._read: the dispatch on fourcc (the model reads files with
\* song_structure sections and sections outside SectionTags)
SectionBody(fourcc, raw) ==
    IF fourcc = SongStructureFourcc THEN SongStructureTag(raw)
    ELSE [exc |-> FALSE, cls |-> "UnknownTag"]

\* A bug: a len_tag below 12 taken as a section without a body
TaggedSection_NoLengthCheck(b, pos) ==
    IF pos + 12 > Len(b) THEN Raised
    ELSE IF U32BE(b, pos + 8) >= 12 /\ pos + U32BE(b, pos + 8) > Len(b) THEN Raised
    ELSE [exc |-> FALSE, start |-> pos, fourcc |-> S32BE(b, pos),
          len_tag |-> U32BE(b, pos + 8), raw_body |-> <<>>,
          body |-> [exc |-> FALSE, cls |-> "UnknownTag"]]

\* TaggedSection._read at position pos of the file's bytes b
TaggedSection(b, pos) ==
    IF pos + 12 > Len(b) THEN Raised
    ELSE IF U32BE(b, pos + 8) < 12 \/ pos + U32BE(b, pos + 8) > Len(b) THEN Raised
    ELSE [exc |-> FALSE, start |-> pos, fourcc |-> S32BE(b, pos),
          len_tag |-> U32BE(b, pos + 8),
          raw_body |-> SubSeq(b, pos + 13, pos + U32BE(b, pos + 8)),
          body |-> SectionBody(S32BE(b, pos), SubSeq(b, pos + 13, pos + U32BE(b, pos + 8)))]

\* RekordboxAnlz._read up to the loop
ReadAnlzHeader ==
    /\ anlz.at = "new"
    /\ anlz' = IF Len(anlz.bytes) < 12 \/ SubSeq(anlz.bytes, 1, 4) # Magic
                  \/ U32BE(anlz.bytes, 4) < 12 \/ U32BE(anlz.bytes, 4) > Len(anlz.bytes)
               THEN [anlz EXCEPT !.at = "raised"]
               ELSE [anlz EXCEPT !.at = "sections", !.pos = U32BE(anlz.bytes, 4)]
    /\ UNCHANGED <<pipevars, rowvars, codec, walkers, callvars>>

\* One pass of `while not self._io.is_eof()`
ReadSection ==
    /\ anlz.at = "sections"
    /\ anlz.pos < Len(anlz.bytes)
    /\ \E sec \in {TaggedSection(anlz.bytes, anlz.pos)} :
          anlz' = IF sec.exc \/ sec.body.exc
                  THEN [anlz EXCEPT !.at = "raised"]
                  ELSE [anlz EXCEPT !.pos = @ + sec.len_tag,
                                    !.sections = Append(@, sec)]
    /\ UNCHANGED <<pipevars, rowvars, codec, walkers, callvars>>

\* The loop ends at the end of the stream
EndOfSections ==
    /\ anlz.at = "sections"
    /\ anlz.pos >= Len(anlz.bytes)
    /\ anlz' = [anlz EXCEPT !.at = "done"]
    /\ UNCHANGED <<pipevars, rowvars, codec, walkers, callvars>>

(* The analysis files the model reads *)

BE16(n) == <<n \div 256, n % 256>>
BE32(n) == <<0, 0>> \o BE16(n)

\* A section: fourcc, len_header, len_tag as declared, body
Section(fourcc, len_tag, body) == fourcc \o BE32(12) \o BE32(len_tag) \o body

\* The bytes from the mood on of a song structure with n entries, entry k
\* being phrase k at beat 16 k
Phrases(mood, n) ==
    BE16(mood) \o <<0, 0, 0, 0, 0, 0>> \o BE16(64) \o <<0, 0, 1, 0>>
        \o [j \in 1..(24 * n) |->
               IF j % 24 = 2 THEN (j \div 24) + 1
               ELSE IF j % 24 = 4 THEN 16 * ((j \div 24) + 1)
               ELSE IF j % 24 = 6 THEN 1 ELSE 0]

\* The key rekordbox masks with: the base bytes plus the entry count, as bytes
KeyOf(c) == [k \in 1..19 |-> (MaskBase[k] + c) % 256]

PSSI == <<80, 83, 83, 73>>

\* A song_structure section: plain, or masked by rekordbox
SongStructure(mood, n, masked) ==
    Section(PSSI, 12 + 6 + 14 + 24 * n,
            BE32(24) \o BE16(n)
                \o (IF masked THEN process_xor_many(Phrases(mood, n), KeyOf(n))
                    ELSE Phrases(mood, n)))

\* The sections: song structures of every mood, plain and masked, with and
\* without entries, one cut short; sections of unknown fourcc, one declaring
\* fewer than 12 bytes, one more than the file has
SectionKinds ==
    {SongStructure(mood, n, masked) : mood \in {1, 2, 3, 20, 21}, n \in {0, 1},
                                       masked \in BOOLEAN}
    \cup {Section(PSSI, 12 + 7, BE32(24) \o BE16(0) \o <<0>>)}
    \cup {Section(fourcc, 12 + Len(body), body) :
            fourcc \in {<<80, 88, 88, 88>>, <<255, 255, 255, 255>>, <<0, 0, 0, 0>>},
            body \in {<<>>, <<7>>, <<80, 83, 83, 73>>}}
    \cup {Section(<<80, 88, 88, 88>>, 4, <<>>), Section(<<80, 88, 88, 88>>, 200, <<9>>)}

\* Sections by the length they declare: none, less than a header, a header
\* and nothing more, a header and one byte, more than the file has; and a
\* plain and a masked song structure
LengthKinds ==
    {Section(<<80, 88, 88, 88>>, len_tag, body) :
        len_tag \in {0, 4, 11, 12, 13, 200}, body \in {<<>>, <<7>>}}
    \cup {SongStructure(1, 1, masked) : masked \in BOOLEAN}

AnlzOf(bytes) == [at |-> "new", bytes |-> bytes, pos |-> 0, sections |-> <<>>]

NoAnlz == [at |-> "idle", bytes |-> <<>>, pos |-> 0, sections |-> <<>>]

RECURSIVE Joined(_, _)
Joined(secs, k) == IF k > Len(secs) THEN <<>> ELSE secs[k] \o Joined(secs, k + 1)

\* A file of sections of the given kinds: the magic, len_header 12 or 14,
\* len_file, then the sections
FileOfKinds(a, kinds) ==
    \E n \in 0..MaxSections, pad \in {0, 2} :
        \E secs \in [1..n -> kinds] :
            a = AnlzOf(Magic \o BE32(12 + pad) \o BE32(12 + pad + Len(Joined(secs, 1)))
                         \o [j \in 1..pad |-> 0] \o Joined(secs, 1))

AnalysisFile(a) == FileOfKinds(a, SectionKinds)

--------------------------------------------------------------------------
(* parser.py and rekordbox_pdb.py: two table walks of one parsed database
   side by side.  PageRef.body works on the root stream, self._root._io,
   which every PageRef of the database shares: io_pos is its position.  A
   page once cut out is parsed and read on a stream of its own. *)

Walkers == {1, 2}

\* A content file whose three tables have a page of three rows each
WholeFile ==
    FileOf(0, ContentTables, [k \in 1..3 |-> WholePage(ContentTables[k].type)])

\* What read_bytes(len_page) at position pos gives Page._read: the page at
\* that position, or, from a position inside the header page, whose bytes
\* after the table directory are zeros, a page of zeros
BlankPage == PageOf("tracks", 0, 0, 0, 0, <<>>)
PageAtPos(f, pos) ==
    IF pos % f.len_page = 0 THEN f.pages[pos \div f.len_page] ELSE BlankPage

WalkerOf(t, first) ==
    [table |-> t, at |-> "loop", current_page |-> first, saved |-> 0, got |-> 0,
     items |-> <<>>, yielded |-> <<>>, broke |-> FALSE]

NoWalkers == [w \in Walkers |-> WalkerOf("none", 0)]

\* The loop test and, in PageRef.body, _pos = io.pos()
BeginLoad(w) ==
    /\ walkers[w].at = "loop"
    /\ walkers' = [walkers EXCEPT ![w] =
                      IF @.current_page > 0 /\ ~@.broke
                      THEN [@ EXCEPT !.at = "seek", !.saved = io_pos]
                      ELSE [@ EXCEPT !.at = "returned"]]
    /\ UNCHANGED <<file, pdb_data, parse_result, io_pos, pc, current_page, broke,
                   playlists, entries, tracks, visited, yielded, tree>>
    /\ UNCHANGED <<rowvars, codec, anlz, callvars>>

\* io.seek(self._root.len_page * self.index)
SeekPage(w) ==
    /\ walkers[w].at = "seek"
    /\ io_pos' = file.len_page * walkers[w].current_page
    /\ walkers' = [walkers EXCEPT ![w].at = "read"]
    /\ UNCHANGED <<file, pdb_data, parse_result, pc, current_page, broke,
                   playlists, entries, tracks, visited, yielded, tree>>
    /\ UNCHANGED <<rowvars, codec, anlz, callvars>>

\* io.read_bytes(self._root.len_page) from where the root stream stands, and
\* Page(...) on the bytes read; a short read or a page whose gap is not zero
\* raises into the walk's `except Exception: break`
ReadPage(w) ==
    /\ walkers[w].at = "read"
    /\ LET short == io_pos + file.len_page > file.len_page * (Len(file.pages) + 1)
       IN  /\ io_pos' \in IF short THEN {io_pos, file.len_page * (Len(file.pages) + 1)}
                          ELSE {io_pos + file.len_page}
           /\ walkers' = [walkers EXCEPT ![w] =
                             IF short \/ PageAtPos(file, io_pos).gap # 0
                             THEN [@ EXCEPT !.at = "loop", !.broke = TRUE]
                             ELSE [@ EXCEPT !.at = "restore", !.got = io_pos]]
    /\ UNCHANGED <<file, pdb_data, parse_result, pc, current_page, broke,
                   playlists, entries, tracks, visited, yielded, tree>>
    /\ UNCHANGED <<rowvars, codec, anlz, callvars>>

\* io.seek(_pos), and the rest of the loop body on the page that was read
FinishLoad(w) ==
    /\ walkers[w].at = "restore"
    /\ io_pos' = walkers[w].saved
    /\ LET page == PageAtPos(file, walkers[w].got)
           acc == ScanRows(walkers[w].table, walkers[w].got \div file.len_page, page, 0,
                           [items |-> <<>>, locs |-> <<>>, exc |-> FALSE])
       IN  walkers' = [walkers EXCEPT ![w] =
                          IF ~is_data_page(page)
                          THEN [@ EXCEPT !.at = "loop", !.current_page = NextOf(page)]
                          ELSE [@ EXCEPT !.at = "loop",
                                         !.items = @ \o acc.items,
                                         !.yielded = @ \o acc.locs,
                                         !.broke = acc.exc,
                                         !.current_page =
                                             IF acc.exc THEN @ ELSE NextOf(page)]]
    /\ UNCHANGED <<file, pdb_data, parse_result, pc, current_page, broke,
                   playlists, entries, tracks, visited, yielded, tree>>
    /\ UNCHANGED <<rowvars, codec, anlz, callvars>>

--------------------------------------------------------------------------
(* parser.py: find_pdb_file *)

\* The directory names find_pdb_file tries, in the order it tries them
potential_paths_Reversed(usb_path) ==
    << <<usb_path, "pioneer", "rekordbox", "export.pdb">>,
       <<usb_path, "Pioneer", "rekordbox", "export.pdb">>,
       <<usb_path, "PIONEER", "rekordbox", "export.pdb">> >>

\* potential_paths
potential_paths(usb_path) ==
    << <<usb_path, "PIONEER", "rekordbox", "export.pdb">>,
       <<usb_path, "Pioneer", "rekordbox", "export.pdb">>,
       <<usb_path, "pioneer", "rekordbox", "export.pdb">> >>

PioneerNames == {"PIONEER", "Pioneer", "pioneer"}

\* What a drive holds under one of the names: nothing; the directory
\* alone; the directory and rekordbox in it; export.pdb as a file, as a
\* directory, or as a link to nothing
Holdings == {"absent", "empty", "nodb", "file", "folder", "dangling"}

\* The entry of the drive's root a name resolves to: on a file system that
\* ignores case the root has one entry and every spelling names it
EntryOf(drive, name) ==
    IF drive.case_sensitive THEN drive.root[name] ELSE drive.root["PIONEER"]

\* Path.exists
exists(drive, path) == EntryOf(drive, path[2]) \in {"file", "folder"}

\* The loop over potential_paths: the first path that exists, or None
RECURSIVE FirstExisting(_, _, _)
FirstExisting(drive, paths, k) ==
    IF k > Len(paths) THEN None
    ELSE IF exists(drive, paths[k]) THEN paths[k]
    ELSE FirstExisting(drive, paths, k + 1)

\* RekordboxParser.find_pdb_file
find_pdb_file(drive, usb_path) == FirstExisting(drive, potential_paths(usb_path), 1)

Drives ==
    { [case_sensitive |-> TRUE, root |-> r] : r \in [PioneerNames -> Holdings] }
    \cup { [case_sensitive |-> FALSE, root |-> [n \in PioneerNames |-> h]] : h \in Holdings }

UsbPaths == {"/Volumes/USB", "E:"}

NoUsb == [at |-> "idle", drive |-> [case_sensitive |-> TRUE,
                                     root |-> [n \in PioneerNames |-> "absent"]],
          usb_path |-> "", found |-> None]

Plugged(u) ==
    \E d \in Drives, at \in UsbPaths :
        u = [at |-> "plugged", drive |-> d, usb_path |-> at, found |-> None]

\* The call find_pdb_file(usb_path)
FindPdbFile ==
    /\ usb.at = "plugged"
    /\ usb' = [usb EXCEPT !.at = "searched", !.found = find_pdb_file(usb.drive, usb.usb_path)]
    /\ UNCHANGED <<pipevars, rowvars, sidevars, lazy, enhance>>

--------------------------------------------------------------------------
(* rekordbox_pdb.py: ArtistRow, AlbumRow, TrackRow and their strings *)

\* A row object is [cls, io, row_base, fields read by _read, cache of the
\* instances computed so far, log of the property reads made]; a cache slot
\* is the empty set until its instance is computed
Uncached == {}

\* ArtistRow._read
ArtistRow_read(b, row_base) ==
    [subtype |-> U16(b, row_base + 1), ofs_name_near |-> b[row_base + 10]]

\* AlbumRow._read: a u16 nobody names, index_shift, three u32 between
\* which artist_id and id, a u32, a byte, ofs_name
AlbumRow_read(b, row_base) ==
    [unnamed0 |-> U16(b, row_base + 1), ofs_name |-> b[row_base + 22]]

\* TrackRow._read: 94 bytes of numbers, then the 21 ofs_strings
TrackRow_read(b, row_base) ==
    [ofs_strings |-> [k \in 0..20 |-> U16(b, row_base + 95 + 2 * k)]]

\* self._io.seek(_pos) at the end of a property
SeekSaved_Stay(io, pos) == io

\* self._io.seek(_pos) at the end of a property
SeekSaved(io, pos) == [io EXCEPT !.pos = pos]

\* One read of a property, as the log keeps it: the position before, the
\* position the string was decoded at (-1 when the cache answered), what
\* came back, the position after
Access(name, before, sought, exc, v, after) ==
    [name |-> name, before |-> before, sought |-> sought, exc |-> exc, v |-> v,
     after |-> after]

\* The body of a string property whose instance is not cached: _pos, seek,
\* DeviceSqlString, seek(_pos)
DecodeStringAt(l, name, ofs) ==
    LET before == l.io.pos
        r == DeviceSqlString([l.io EXCEPT !.pos = l.row_base + ofs])
    IN  IF r.exc
        THEN [l EXCEPT !.io = r.io,
                       !.log = Append(@, Access(name, before, l.row_base + ofs, TRUE,
                                                <<>>, r.io.pos))]
        ELSE [l EXCEPT !.io = SeekSaved(r.io, before),
                       !.cache[name] = {r.v},
                       !.log = Append(@, Access(name, before, l.row_base + ofs, FALSE,
                                                r.v, SeekSaved(r.io, before).pos))]

\* if hasattr(self, '_m_...'): return self._m_...
FromCache(l, name) ==
    [l EXCEPT !.log = Append(@, Access(name, l.io.pos, 0 - 1, FALSE,
                                       CHOOSE v \in l.cache[name] : TRUE, l.io.pos))]

\* ArtistRow.ofs_name_far: the u16 at row_base + 10 when subtype is 100
ArtistRow_ofs_name_far(l) ==
    LET r == io_read_u2le([l.io EXCEPT !.pos = l.row_base + 10])
    IN  IF r.exc THEN r ELSE StrRet(SeekSaved(r.io, l.io.pos), r.v)

\* The offset ArtistRow.name seeks to, were it the near one for every row
ArtistRow_name_ofs_Near(subtype, near, far) == near

\* The offset ArtistRow.name seeks to
ArtistRow_name_ofs(subtype, near, far) == IF subtype = 100 THEN far ELSE near

\* ArtistRow.name
ArtistRow_name(l) ==
    IF l.cache["name"] # Uncached THEN FromCache(l, "name")
    ELSE IF l.fields.subtype = 100 /\ l.cache["ofs_name_far"] = Uncached
    THEN LET far == ArtistRow_ofs_name_far(l)
         IN  IF far.exc
             THEN [l EXCEPT !.io = far.io,
                            !.log = Append(@, Access("name", l.io.pos, 0 - 1, TRUE, <<>>,
                                                     far.io.pos))]
             ELSE DecodeStringAt([l EXCEPT !.cache["ofs_name_far"] = {far.v}], "name",
                           ArtistRow_name_ofs(l.fields.subtype,
                                              l.fields.ofs_name_near, far.v))
    ELSE DecodeStringAt(l, "name",
                  ArtistRow_name_ofs(l.fields.subtype, l.fields.ofs_name_near,
                                     IF l.cache["ofs_name_far"] = Uncached THEN 0
                                     ELSE CHOOSE v \in l.cache["ofs_name_far"] : TRUE))

\* AlbumRow.name
AlbumRow_name(l) ==
    IF l.cache["name"] # Uncached THEN FromCache(l, "name")
    ELSE DecodeStringAt(l, "name", l.fields.ofs_name)

\* TrackRow.title
TrackRow_title(l) ==
    IF l.cache["title"] # Uncached THEN FromCache(l, "title")
    ELSE DecodeStringAt(l, "title", l.fields.ofs_strings[17])

\* TrackRow.file_path
TrackRow_file_path(l) ==
    IF l.cache["file_path"] # Uncached THEN FromCache(l, "file_path")
    ELSE DecodeStringAt(l, "file_path", l.fields.ofs_strings[20])

CacheSlots == {"name", "ofs_name_far", "title", "file_path"}

\* A row object right after its constructor ran
RowObject(cls, bytes, row_base, pos, moves) ==
    [at |-> "row", cls |-> cls,
     io |-> [bytes |-> bytes, pos |-> pos, moves |-> moves],
     row_base |-> row_base,
     fields |-> CASE cls = "ArtistRow" -> ArtistRow_read(bytes, row_base)
                  [] cls = "AlbumRow" -> AlbumRow_read(bytes, row_base)
                  [] cls = "TrackRow" -> TrackRow_read(bytes, row_base),
     cache |-> [n \in CacheSlots |-> Uncached],
     log |-> <<>>]

NoLazy == [at |-> "idle", cls |-> "none",
           io |-> [bytes |-> <<>>, pos |-> 0, moves |-> FALSE],
           row_base |-> 0, fields |-> [none |-> 0],
           cache |-> [n \in CacheSlots |-> Uncached], log |-> <<>>]

(* The rows the model reads *)

LE16(n) == <<n % 256, n \div 256>>

Filler(n) == [k \in 1..n |-> 0]

\* What lies on the page before the row
BeforeRow(row_base) == [k \in 1..row_base |-> 9]

\* Two strings of a row's heap, the second gap bytes behind the first
TwoStrings(first, gap, second) == first \o Filler(gap) \o second

\* An artist row: subtype, index_shift, id, a byte, the near offset; the
\* far offset; the strings
ArtistBytes(subtype, near, far, strings) ==
    LE16(subtype) \o <<0, 0>> \o <<5, 0, 0, 0>> \o <<3, near>> \o LE16(far) \o strings

\* An album row, with a far offset behind the near one as in an artist row
AlbumBytes(subtype, near, far, strings) ==
    LE16(subtype) \o <<0, 0>> \o Filler(4) \o <<5, 0, 0, 0>> \o <<6, 0, 0, 0>>
        \o Filler(4) \o <<3, near>> \o LE16(far) \o strings

\* A track row: its numbers, the offsets of title (17) and file_path (20)
\* among the 21, the strings
TrackBytes(title_at, path_at, strings) ==
    Filler(94)
        \o [k \in 1..42 |-> IF k = 35 THEN title_at % 256
                             ELSE IF k = 36 THEN title_at \div 256
                             ELSE IF k = 41 THEN path_at % 256
                             ELSE IF k = 42 THEN path_at \div 256
                             ELSE 0]
        \o strings

\* The texts of the two strings of a row
NearText == <<78>>
FarText == <<70, 233>>

Subtypes == {96, 100, 132}

\* The forms of the first string, and of the second: whole, or cut by the
\* end of the page
FirstForms == FormsOf(NearText)
SecondForms ==
    FormsOf(FarText) \cup {SubSeq(b, 1, Len(b) - 1) : b \in FormsOf(FarText)}

RowsWithStrings(l) ==
    \E row_base \in {0, 3}, moves \in BOOLEAN, gap \in {0, 300},
       first \in FirstForms, second \in SecondForms :
        \E pos \in {0, row_base + 8} :
            \/ \E subtype \in Subtypes :
                  l = RowObject("ArtistRow",
                                BeforeRow(row_base)
                                    \o ArtistBytes(subtype, 12, 12 + Len(first) + gap,
                                                   TwoStrings(first, gap, second)),
                                row_base, pos, moves)
            \/ \E subtype \in Subtypes :
                  l = RowObject("AlbumRow",
                                BeforeRow(row_base)
                                    \o AlbumBytes(subtype, 24, 24 + Len(first) + gap,
                                                  TwoStrings(first, gap, second)),
                                row_base, pos, moves)
            \/ l = RowObject("TrackRow",
                             BeforeRow(row_base)
                                 \o TrackBytes(136, 136 + Len(first) + gap,
                                               TwoStrings(first, gap, second)),
                             row_base, pos, moves)

\* An artist row of subtype 100 that the end of the page cuts in its far
\* offset
CutArtistRows(l) ==
    \E row_base \in {0, 3}, moves \in BOOLEAN, left \in {0, 1} :
        l = RowObject("ArtistRow",
                      BeforeRow(row_base)
                          \o SubSeq(ArtistBytes(100, 12, 12, <<>>), 1, 10 + left),
                      row_base, 0, moves)

\* One read of a string property of the row
ReadName ==
    /\ lazy.at = "row"
    /\ lazy.cls \in {"ArtistRow", "AlbumRow"}
    /\ Len(lazy.log) < MaxResolves
    /\ lazy' = IF lazy.cls = "ArtistRow" THEN ArtistRow_name(lazy) ELSE AlbumRow_name(lazy)
    /\ UNCHANGED <<pipevars, rowvars, sidevars, usb, enhance>>

ReadTitle ==
    /\ lazy.at = "row"
    /\ lazy.cls = "TrackRow"
    /\ Len(lazy.log) < MaxResolves
    /\ lazy' = TrackRow_title(lazy)
    /\ UNCHANGED <<pipevars, rowvars, sidevars, usb, enhance>>

ReadFilePath ==
    /\ lazy.at = "row"
    /\ lazy.cls = "TrackRow"
    /\ Len(lazy.log) < MaxResolves
    /\ lazy' = TrackRow_file_path(lazy)
    /\ UNCHANGED <<pipevars, rowvars, sidevars, usb, enhance>>

--------------------------------------------------------------------------
(* parser.py: enhance_playlist_tracks *)

\* A page of the tracks table as the enhancement sees it: an index page, a
\* page whose rows cannot be read, or the file paths of a data page's rows
\* in the order they lie on the page
TrackPage(kind, paths) == [kind |-> kind, paths |-> paths]

\* A track with what the walk of get_playlists knows of it, and with what
\* its row of the tracks table holds
MinimalTrack(path) == [title |-> "minimal", file_path |-> path, artist |-> "Unknown"]
FullTrack(path) == [title |-> "full", file_path |-> path, artist |-> "Artist"]

\* track_by_path: the paths of the playlist's tracks
track_by_path(minimal_tracks) ==
    {minimal_tracks[k].file_path : k \in 1..Len(minimal_tracks)}

\* The loops over a page's row groups and rows: every row whose file path
\* is a key of track_by_path gives a track, in the order of the rows
RECURSIVE MatchRows(_, _, _)
MatchRows(paths, k, wanted) ==
    IF k > Len(paths) THEN <<>>
    ELSE (IF paths[k] # "" /\ paths[k] \in wanted THEN <<FullTrack(paths[k])>> ELSE <<>>)
            \o MatchRows(paths, k + 1, wanted)

\* The walk of the tracks table: while current_page and found_tracks <
\* target_count
RECURSIVE EnhanceWalk(_, _, _, _, _)
EnhanceWalk(table, k, wanted, target_count, enhanced_tracks) ==
    IF k > Len(table) \/ Len(enhanced_tracks) >= target_count THEN enhanced_tracks
    ELSE IF table[k].kind = "torn" THEN enhanced_tracks
    ELSE IF table[k].kind = "index"
         THEN EnhanceWalk(table, k + 1, wanted, target_count, enhanced_tracks)
    ELSE EnhanceWalk(table, k + 1, wanted, target_count,
                     enhanced_tracks \o MatchRows(table[k].paths, 1, wanted))

\* The minimal tracks whose path no enhanced track has
Missed(minimal_tracks, enhanced_paths) ==
    SelectSeq(minimal_tracks, LAMBDA t : t.file_path \notin enhanced_paths)

\* _extract_specific_tracks_full_metadata, were its result the minimal
\* tracks in their order, each replaced by the track of its row if found
extract_specific_tracks_full_metadata_InOrder(minimal_tracks, table) ==
    LET found == EnhanceWalk(table, 1, track_by_path(minimal_tracks),
                             Len(minimal_tracks), <<>>)
        paths == {found[k].file_path : k \in 1..Len(found)}
    IN  [k \in 1..Len(minimal_tracks) |->
            IF minimal_tracks[k].file_path \in paths
            THEN FullTrack(minimal_tracks[k].file_path) ELSE minimal_tracks[k]]

\* _extract_specific_tracks_full_metadata
extract_specific_tracks_full_metadata(minimal_tracks, table) ==
    IF minimal_tracks = <<>> THEN <<>>
    ELSE LET enhanced_tracks == EnhanceWalk(table, 1, track_by_path(minimal_tracks),
                                            Len(minimal_tracks), <<>>)
         IN  IF Len(enhanced_tracks) < Len(minimal_tracks)
             THEN enhanced_tracks
                    \o Missed(minimal_tracks,
                              {enhanced_tracks[k].file_path : k \in 1..Len(enhanced_tracks)})
             ELSE enhanced_tracks

\* _enhance_tracks_with_file_metadata: one track for each track, with the
\* file_path of that track
enhance_tracks_with_file_metadata(some_tracks) ==
    [k \in 1..Len(some_tracks) |-> [some_tracks[k] EXCEPT !.title = "merged"]]

\* enhance_playlist_tracks
enhance_playlist_tracks(playlist, usb_path, table) ==
    IF usb_path = "" THEN playlist
    ELSE [playlist EXCEPT
            !.tracks = enhance_tracks_with_file_metadata(
                           extract_specific_tracks_full_metadata(playlist.tracks, table))]

TrackPaths == {"/Contents/A.mp3", "/Contents/B.mp3"}

TrackPages ==
    {TrackPage("index", <<>>), TrackPage("torn", <<>>)}
        \cup UNION { {TrackPage("data", ps) : ps \in [1..n -> TrackPaths \cup {""}]} :
                        n \in 0..MaxTrackRows }

TracksTables == UNION { [1..n -> TrackPages] : n \in 0..2 }

PlaylistsToEnhance ==
    UNION { { [id |-> 1, name |-> "House", is_folder |-> FALSE, parent_id |-> p,
               tracks |-> [k \in 1..n |-> MinimalTrack(ps[k])]] :
                 ps \in [1..n -> TrackPaths], p \in {0 - 1, 7} } :
            n \in 0..MaxEntries }

NoEnhance == [at |-> "idle",
              playlist |-> [id |-> 0, name |-> "", is_folder |-> FALSE, parent_id |-> 0 - 1,
                            tracks |-> <<>>],
              usb_path |-> "", table |-> <<>>,
              result |-> [id |-> 0, name |-> "", is_folder |-> FALSE, parent_id |-> 0 - 1,
                          tracks |-> <<>>]]

ToEnhance(e) ==
    \E pl \in PlaylistsToEnhance, at \in {"", "/Volumes/USB"}, table \in TracksTables :
        e = [NoEnhance EXCEPT !.at = "called", !.playlist = pl, !.usb_path = at,
                              !.table = table]

\* The call enhance_playlist_tracks(playlist, usb_path)
EnhancePlaylistTracks ==
    /\ enhance.at = "called"
    /\ enhance' = [enhance EXCEPT
                      !.at = "returned",
                      !.result = enhance_playlist_tracks(enhance.playlist, enhance.usb_path,
                                                         enhance.table)]
    /\ UNCHANGED <<pipevars, rowvars, sidevars, usb, lazy>>


\* No call of a function on its own under way
CallIdle ==
    /\ usb = NoUsb
    /\ lazy = NoLazy
    /\ enhance = NoEnhance

\* Nothing outside the pipeline and the page under way
SideIdle ==
    /\ codec = NoCodec
    /\ anlz = NoAnlz
    /\ walkers = NoWalkers
    /\ CallIdle

--------------------------------------------------------------------------
(* The specification of parse and get_playlists *)

PipeIdle ==
    /\ pdb_data = None
    /\ parse_result = "none"
    /\ io_pos = 0
    /\ pc = "idle"
    /\ current_page = 0
    /\ broke = FALSE
    /\ playlists = <<>>
    /\ entries = <<>>
    /\ tracks = <<>>
    /\ visited = [t \in Walks |-> <<>>]
    /\ yielded = [t \in Walks |-> <<>>]
    /\ tree = NoTree

RowIdle ==
    /\ obj = NewPage
    /\ accesses = 0
    /\ scan = NotScanned

Init ==
    /\ InputFile(file)
    /\ PipeIdle
    /\ raw_page = NoPage
    /\ RowIdle
    /\ SideIdle

Next ==
    \/ Parse
    \/ GetPlaylists
    \/ \E t \in Walks : WalkStep(t)
    \/ \E t \in Walks : EndWalk(t)

Spec == Init /\ [][Next]_vars

--------------------------------------------------------------------------
(* The specification of get_playlists on a file with a table and a page of
   a type PageType does not have *)

InitUnknownType ==
    /\ \E at \in 1..4, via \in Walks \cup {"none"} : file = UnknownTypeFile(at, via)
    /\ PipeIdle
    /\ raw_page = NoPage
    /\ RowIdle
    /\ SideIdle

SpecUnknownType == InitUnknownType /\ [][Next]_vars

--------------------------------------------------------------------------
(* The specification of one page's row index: any property reads in any
   order, and the walk's scan of the page among them *)

InitRowIndex ==
    /\ raw_page \in IndexPages
    /\ RowIdle
    /\ file = FileOf(0, <<>>, <<>>)
    /\ PipeIdle
    /\ SideIdle

NextRowIndex ==
    \/ \E name \in PropertyNames, g \in 0..3, i \in SampleSlots : ReadProperty(name, g, i)
    \/ ScanDataPage

SpecRowIndex == InitRowIndex /\ [][NextRowIndex]_vars

--------------------------------------------------------------------------
(* The specification of one DeviceSqlString *)

InitString ==
    /\ EncodedString(codec)
    /\ file = FileOf(0, <<>>, <<>>)
    /\ PipeIdle
    /\ raw_page = NoPage
    /\ RowIdle
    /\ anlz = NoAnlz
    /\ walkers = NoWalkers
    /\ CallIdle

NextString == DecodeString

SpecString == InitString /\ [][NextString]_vars

--------------------------------------------------------------------------
(* The specification of the three pointers a walk follows: the next_page
   index of a page, the offset of a row, the offset of a string of a row *)

InitPointers ==
    \/ Init
    \/ InitRowIndex
    \/ /\ StringOnPage(codec)
       /\ file = FileOf(0, <<>>, <<>>)
       /\ PipeIdle
       /\ raw_page = NoPage
       /\ RowIdle
       /\ anlz = NoAnlz
       /\ walkers = NoWalkers
       /\ CallIdle

\* PageRef.body and the walk that calls it
FollowNextPage == Len(file.pages) > 0 /\ Next

\* RowRef.body and the walk's pass over the page
FollowRowOffset == raw_page # NoPage /\ NextRowIndex

\* TrackRow.title, TrackRow.file_path
FollowStringOffset == DecodeString

NextPointers == FollowNextPage \/ FollowRowOffset \/ FollowStringOffset

SpecPointers == InitPointers /\ [][NextPointers]_vars

--------------------------------------------------------------------------
(* The specification of one analysis file *)

InitAnlz ==
    /\ AnalysisFile(anlz)
    /\ file = FileOf(0, <<>>, <<>>)
    /\ PipeIdle
    /\ raw_page = NoPage
    /\ RowIdle
    /\ codec = NoCodec
    /\ walkers = NoWalkers
    /\ CallIdle

NextAnlz ==
    \/ ReadAnlzHeader
    \/ ReadSection
    \/ EndOfSections

SpecAnlz == InitAnlz /\ [][NextAnlz]_vars

\* The reader's loop, running on as long as it can, over files of sections
\* of every declared length
InitAnlzRun ==
    /\ FileOfKinds(anlz, LengthKinds)
    /\ file = FileOf(0, <<>>, <<>>)
    /\ PipeIdle
    /\ raw_page = NoPage
    /\ RowIdle
    /\ codec = NoCodec
    /\ walkers = NoWalkers
    /\ CallIdle

SpecAnlzRun == InitAnlzRun /\ [][NextAnlz]_vars /\ WF_vars(NextAnlz)

--------------------------------------------------------------------------
(* The specification of find_pdb_file on a drive *)

InitFind ==
    /\ Plugged(usb)
    /\ lazy = NoLazy
    /\ enhance = NoEnhance
    /\ file = FileOf(0, <<>>, <<>>)
    /\ PipeIdle
    /\ raw_page = NoPage
    /\ RowIdle
    /\ codec = NoCodec
    /\ anlz = NoAnlz
    /\ walkers = NoWalkers

NextFind == FindPdbFile

SpecFind == InitFind /\ [][NextFind]_vars

--------------------------------------------------------------------------
(* The specification of the string properties of one row *)

InitLazy ==
    /\ RowsWithStrings(lazy) \/ CutArtistRows(lazy)
    /\ usb = NoUsb
    /\ enhance = NoEnhance
    /\ file = FileOf(0, <<>>, <<>>)
    /\ PipeIdle
    /\ raw_page = NoPage
    /\ RowIdle
    /\ codec = NoCodec
    /\ anlz = NoAnlz
    /\ walkers = NoWalkers

NextLazy ==
    \/ ReadName
    \/ ReadTitle
    \/ ReadFilePath

SpecLazy == InitLazy /\ [][NextLazy]_vars

--------------------------------------------------------------------------
(* The specification of enhance_playlist_tracks *)

InitEnhance ==
    /\ ToEnhance(enhance)
    /\ usb = NoUsb
    /\ lazy = NoLazy
    /\ file = FileOf(0, <<>>, <<>>)
    /\ PipeIdle
    /\ raw_page = NoPage
    /\ RowIdle
    /\ codec = NoCodec
    /\ anlz = NoAnlz
    /\ walkers = NoWalkers

NextEnhance == EnhancePlaylistTracks

SpecEnhance == InitEnhance /\ [][NextEnhance]_vars

--------------------------------------------------------------------------
(* The specification of two walks of different tables run side by side on
   a parsed database, their seeks and reads interleaved in any order *)

InitConcurrent ==
    /\ file = WholeFile
    /\ pdb_data = "RekordboxPdb"
    /\ parse_result = "True"
    /\ io_pos = ReadPdb(file).pos
    /\ pc = "idle"
    /\ current_page = 0
    /\ broke = FALSE
    /\ playlists = <<>>
    /\ entries = <<>>
    /\ tracks = <<>>
    /\ visited = [t \in Walks |-> <<>>]
    /\ yielded = [t \in Walks |-> <<>>]
    /\ tree = NoTree
    /\ raw_page = NoPage
    /\ RowIdle
    /\ codec = NoCodec
    /\ anlz = NoAnlz
    /\ CallIdle
    /\ \E t, u \in Walks :
          /\ t # u
          /\ walkers = [w \in Walkers |->
                           IF w = 1 THEN WalkerOf(t, FirstPage(file, t))
                                    ELSE WalkerOf(u, FirstPage(file, u))]

NextConcurrent ==
    \E w \in Walkers :
        \/ BeginLoad(w)
        \/ SeekPage(w)
        \/ ReadPage(w)
        \/ FinishLoad(w)

SpecConcurrent == InitConcurrent /\ [][NextConcurrent]_vars

--------------------------------------------------------------------------
(* Vocabulary of the properties *)

PcRank(at) ==
    CASE at = "idle" -> 0
      [] at = "playlist_tree" -> 1
      [] at = "playlist_entries" -> 2
      [] at = "tracks" -> 3
      [] at = "done" -> 4

\* The walk of table t has returned
Finished(t) == PcRank(pc) > PcRank(t)

\* get_playlists has returned the tree it assembled from the three walks
Assembled == pc = "done" /\ pdb_data # None

NoDuplicates(seq) == \A i, j \in 1..Len(seq) : i # j => seq[i] # seq[j]

RECURSIVE Ascending(_)
Ascending(S) ==
    IF S = {} THEN <<>>
    ELSE LET m == CHOOSE x \in S : \A y \in S : x <= y
         IN  <<m>> \o Ascending(S \ {m})

\* The pages met from page p by following next_page, for at most n steps
RECURSIVE Follow(_, _, _)
Follow(f, p, n) ==
    IF p = 0 \/ p > Len(f.pages) \/ n = 0 THEN <<>>
    ELSE <<p>> \o Follow(f, f.pages[p].next_page, n - 1)

\* The chain of table t ends at a page whose next_page index is 0
EndsAtZero(f, t) ==
    LET chain == Follow(f, FirstPage(f, t), Len(f.pages) + 1)
    IN  \/ FirstPage(f, t) = 0
        \/ /\ chain # <<>>
           /\ Len(chain) <= Len(f.pages)
           /\ f.pages[chain[Len(chain)]].next_page = 0

\* The chain of table t comes back to a page it has already passed
Cyclic(f, t) ==
    LET chain == Follow(f, FirstPage(f, t), Len(f.pages) + 1)
    IN  Len(chain) > Len(f.pages)

ChainOf(f, t) == Follow(f, FirstPage(f, t), Len(f.pages))

\* The slots of page number p whose presence bit is 1, by group and slot
PresentPlaces(f, p) ==
    LET page == f.pages[p]
        ks == {k \in 0..(16 * Len(page.groups) - 1) :
                 (page.groups[(k \div 16) + 1].row_present_flags \div Pow2(k % 16)) % 2 = 1}
        order == Ascending(ks)
    IN  [n \in 1..Len(order) |-> <<p, order[n] \div 16, order[n] % 16>>]

RECURSIVE PlacesAlong(_, _, _)
PlacesAlong(f, chain, k) ==
    IF k > Len(chain) THEN <<>>
    ELSE (IF (f.pages[chain[k]].page_flags \div 64) % 2 = 1 THEN <<>>
          ELSE PresentPlaces(f, chain[k]))
         \o PlacesAlong(f, chain, k + 1)

\* Every present row of every data page of the chain, in chain order
ExpectedPlaces(f, t) == PlacesAlong(f, ChainOf(f, t), 1)

RawAt(f, place) == RowAt(f.pages[place[1]].groups[place[2] + 1], place[3])

\* The collection of walk t holds what the rows at the yielded places hold
HoldsYielded(t) ==
    LET at == yielded[t]
    IN  CASE t = "playlist_tree" ->
                /\ Len(playlists) = Len(at)
                /\ \A k \in 1..Len(at) :
                      /\ playlists[k].parent_id = RawAt(file, at[k]).w[1]
                      /\ playlists[k].id = RawAt(file, at[k]).w[4]
          [] t = "playlist_entries" ->
                /\ Len(entries) = Len(at)
                /\ \A k \in 1..Len(at) :
                      /\ entries[k].entry_index = RawAt(file, at[k]).w[1]
                      /\ entries[k].track_id = RawAt(file, at[k]).w[2]
                      /\ entries[k].playlist_id = RawAt(file, at[k]).w[3]
          [] t = "tracks" ->
                DOMAIN tracks = {RawAt(file, at[k]).w[1] : k \in 1..Len(at)}

\* Every data page of the chain declares the table's own type and every
\* present row of it lies inside its page
Decodes(f, t) ==
    \A n \in 1..Len(ChainOf(f, t)) :
        LET p == ChainOf(f, t)[n]
            places == PresentPlaces(f, p)
        IN  (f.pages[p].page_flags \div 64) % 2 = 0 =>
                /\ f.pages[p].type = t
                /\ \A k \in 1..Len(places) : RawAt(f, places[k]).ok

--------------------------------------------------------------------------
(* C1 and C2: the table walk *)

\* C1: a walk along a cyclic next_page chain terminates and visits no page
\* more than once.  (The loop has no visited-page test: on a cycle it loads
\* the same pages again and again and never returns.)
C1_NoPageVisitedTwice ==
    \A t \in Walks : Cyclic(file, t) => NoDuplicates(visited[t])

--------------------------------------------------------------------------
(* C4: the header guard *)

\* C4: a file whose header gap is not all zero is rejected before any table
\* directory entry or page is read: the stream stands right after the gap,
\* parse returns False and pdb_data stays unset, so no walk loads a page.
C4_GapRejected ==
    file.gap # 0 =>
        /\ pdb_data = None
        /\ parse_result \in {"none", "False"}
        /\ parse_result = "False" => io_pos = HeaderLen
        /\ \A t \in Walks : visited[t] = <<>>
        /\ tree \in {NoTree, EmptyTree}

\* parse has been called on a file with a bad gap
C4_Witness == file.gap # 0 /\ parse_result = "False" /\ io_pos = HeaderLen

--------------------------------------------------------------------------
(* C5 and C6: the row index of one page *)

\* Bit i of the presence mask of group g, taken from the page's bytes
MaskBit(g, i) ==
    LET at == LenPage - 36 * g - 4
    IN  ((raw_page.bytes[at] + 256 * raw_page.bytes[at + 1]) \div Pow2(i)) % 2

\* The slots of the page's row groups whose mask bit is 1, by group and slot
SetSlots ==
    SelectSeq([n \in 1..(16 * num_row_groups(hdr)) |-> n - 1],
              LAMBDA k : MaskBit(k \div 16, k % 16) = 1)

IsPrefix(s, t) == Len(s) <= Len(t) /\ \A n \in 1..Len(s) : s[n] = t[n]

\* C5: on a data page the rows reported present are exactly the slots whose
\* bit in the group's 16-bit mask is 1, and a slot whose bit is 0 is never
\* decoded: present is the mask bit for every slot asked, no row class is
\* ever constructed for a slot with bit 0, and the scan of the page finds
\* the slots with bit 1 in group and slot order (all of them when no read
\* error ends it, one row per slot when the page type has a decoder).
C5_PresenceBitmask ==
    /\ \A k \in DOMAIN obj.m_present :
          obj.m_present[k] <=> MaskBit(k \div 16, k % 16) = 1
    /\ \A k \in obj.rows_read \cup DOMAIN obj.m_body : MaskBit(k \div 16, k % 16) = 1
    /\ scan.done /\ is_data_page(hdr) =>
          /\ IsPrefix(scan.reported, SetSlots)
          /\ ~scan.exc => scan.reported = SetSlots
          /\ ~scan.exc /\ RowClassOf(hdr.type) # None => Len(scan.rows) = Len(SetSlots)
          /\ ~scan.exc => \A k \in 0..(16 * num_row_groups(hdr) - 1) :
                              k \in DOMAIN obj.m_present

\* A completed scan of a page of two groups, with set and clear bits in both
C5_Witness ==
    /\ scan.done /\ ~scan.exc
    /\ num_row_groups(hdr) = 2
    /\ \E k \in 0..15 : obj.m_present[k] /\ k \in DOMAIN obj.m_body
    /\ \E k \in 16..31 : obj.m_present[k] /\ k \in DOMAIN obj.m_body
    /\ \E k \in 0..15 : ~obj.m_present[k]
    /\ \E k \in 16..31 : ~obj.m_present[k]
    /\ Len(scan.rows) = 4

\* The u16 at P - 36g - 6 - 2i of the page's bytes
OffsetOnPage(g, i) ==
    raw_page.bytes[LenPage - 36 * g - 6 - 2 * i]
        + 256 * raw_page.bytes[LenPage - 36 * g - 6 - 2 * i + 1]

\* The u32 at address a of the page's bytes
WordOnPage(a) ==
    raw_page.bytes[a] + 256 * raw_page.bytes[a + 1]
        + 65536 * raw_page.bytes[a + 2] + 16777216 * raw_page.bytes[a + 3]

\* C6: for a page of P bytes, the mask of group g is the u16 at P - 36g - 4,
\* the offset of slot i the u16 at P - 36g - 6 - 2i, and the row's absolute
\* position that offset plus 40, the heap start, whatever was read before
\* and in whatever order; a decoded row holds the words found there.
C6_RowIndexLayout ==
    /\ obj.m_heap_pos \in {0 - 1, 40}
    /\ \A g \in DOMAIN obj.m_row_present_flags :
          obj.m_row_present_flags[g]
              = raw_page.bytes[LenPage - 36 * g - 4]
                  + 256 * raw_page.bytes[LenPage - 36 * g - 3]
    /\ \A k \in DOMAIN obj.m_ofs_row : obj.m_ofs_row[k] = OffsetOnPage(k \div 16, k % 16)
    /\ \A k \in DOMAIN obj.m_row_base :
          obj.m_row_base[k] = OffsetOnPage(k \div 16, k % 16) + 40
    /\ \A k \in DOMAIN obj.m_body :
          /\ obj.m_body[k].cls = "PlaylistEntryRow" =>
                obj.m_body[k].entry_index = WordOnPage(OffsetOnPage(k \div 16, k % 16) + 40)
          /\ obj.m_body[k].cls = "HistoryEntryRow" =>
                obj.m_body[k].track_id = WordOnPage(OffsetOnPage(k \div 16, k % 16) + 40)

\* Rows of both groups decoded, one of them not at the heap start, after a
\* failed row read left the stream away from the heap start
C6_Witness ==
    /\ obj.pos # 40
    /\ \E k \in DOMAIN obj.m_body : k < 16 /\ obj.m_row_base[k] > 40
    /\ \E k \in DOMAIN obj.m_row_base : k >= 16
    /\ obj.m_heap_pos = 40

--------------------------------------------------------------------------
(* C3, C7 - C10: the assembled PlaylistTree *)

\* The playlists of the returned tree
TreePlaylists ==
    {tree.all_playlists[id] : id \in DOMAIN tree.all_playlists}
        \cup {tree.root_playlists[k] : k \in 1..Len(tree.root_playlists)}

\* The entries of playlist id whose track is in the tracks table, in row order
KeptEntries(id) ==
    SelectSeq(entries, LAMBDA e : e.playlist_id = id /\ e.track_id \in DOMAIN tracks)

Orderings(n) == {f \in [1..n -> 1..n] : \A i, j \in 1..n : i # j => f[i] # f[j]}

\* C3: the tracks of every playlist are in ascending entry_index order of the
\* playlist's entries, whatever the order of the rows in the pages.
C3_TracksByEntryIndex ==
    Assembled =>
        \A pl \in TreePlaylists :
            LET kept == KeptEntries(pl.id)
            IN  \E f \in Orderings(Len(kept)) :
                    /\ \A i, j \in 1..Len(kept) :
                          i < j => kept[f[i]].entry_index <= kept[f[j]].entry_index
                    /\ pl.tracks = [k \in 1..Len(kept) |-> tracks[kept[f[k]].track_id]]

\* The playlist was built from the meta: same id, name and is_folder
BuiltFrom(pl, meta) ==
    pl.id = meta.id /\ pl.name = meta.name /\ pl.is_folder = meta.is_folder

InRoots(meta) ==
    \E k \in 1..Len(tree.root_playlists) : BuiltFrom(tree.root_playlists[k], meta)

MetaIds == {playlists[k].id : k \in 1..Len(playlists)}

\* C7: every decoded playlist whose on-disk parent_id is 0 is in root_playlists.
C7_ZeroParentIsRoot ==
    Assembled =>
        \A k \in 1..Len(playlists) : playlists[k].parent_id = 0 => InRoots(playlists[k])

\* A tree with a root folder and a playlist that is not a root
C7_Witness ==
    /\ Assembled
    /\ \E k \in 1..Len(playlists) :
          playlists[k].parent_id = 0 /\ playlists[k].is_folder /\ InRoots(playlists[k])
    /\ \E k \in 1..Len(playlists) : playlists[k].parent_id # 0

\* C8: a playlist whose non-zero parent_id matches no playlist id is treated
\* as a root.  (The code keeps the dangling parent_id, leaves the playlist out
\* of root_playlists and reports nothing.)
C8_DanglingParentIsRoot ==
    Assembled =>
        \A k \in 1..Len(playlists) :
            playlists[k].parent_id # 0 /\ playlists[k].parent_id \notin MetaIds
                => InRoots(playlists[k])

\* C9, as stated: all_playlists holds a playlist built from every decoded row.
C9_EveryRowInAllPlaylists ==
    Assembled =>
        \A k \in 1..Len(playlists) :
            \E id \in DOMAIN tree.all_playlists :
                BuiltFrom(tree.all_playlists[id], playlists[k])

\* C9, amended: every decoded id is a key of all_playlists, under which the
\* playlist built from the last decoded row with that id is stored; a row is
\* missing from all_playlists only when a later row carries its id.
C9_LastRowOfEveryId ==
    Assembled =>
        /\ DOMAIN tree.all_playlists = MetaIds
        /\ \A k \in 1..Len(playlists) :
              (\A j \in (k + 1)..Len(playlists) : playlists[j].id # playlists[k].id)
                  => BuiltFrom(tree.all_playlists[playlists[k].id], playlists[k])

\* A tree from two rows, one a playlist that is not a root
C9_Witness ==
    /\ Assembled
    /\ Len(playlists) = 2
    /\ playlists[1].id # playlists[2].id
    /\ \E k \in 1..2 : playlists[k].parent_id # 0 /\ ~InRoots(playlists[k])
    /\ \A k \in 1..2 : BuiltFrom(tree.all_playlists[playlists[k].id], playlists[k])

\* The rows of `entries` that belong to playlist id
EntryRowsOf(id) == {k \in 1..Len(entries) : entries[k].playlist_id = id}
Dangling(k) == entries[k].track_id \notin DOMAIN tracks

\* C10: an entry whose track_id is in no row of the tracks table is left out
\* of its playlist; every other entry of the playlist keeps its place (the
\* n-th entry that has a track gives the n-th track), every playlist is
\* assembled and the build is not aborted.
C10_DanglingEntryDropped ==
    Assembled =>
        /\ tree.returned
        /\ MetaIds \subseteq DOMAIN tree.all_playlists
        /\ \A pl \in TreePlaylists :
              LET rows == EntryRowsOf(pl.id)
                  kept == {k \in rows : ~Dangling(k)}
              IN  /\ Len(pl.tracks) = Cardinality(kept)
                  /\ \A k \in kept :
                        pl.tracks[Cardinality({j \in kept : j <= k})]
                            = tracks[entries[k].track_id]

\* A playlist whose first entry is dangling and whose second has its track,
\* beside another playlist with a track of its own
C10_Witness ==
    /\ Assembled
    /\ \E pl \in TreePlaylists :
          /\ Len(pl.tracks) = 1
          /\ \E j, k \in EntryRowsOf(pl.id) : j < k /\ Dangling(j) /\ ~Dangling(k)
    /\ \E pl \in TreePlaylists :
          Len(pl.tracks) = 1 /\ \A k \in EntryRowsOf(pl.id) : ~Dangling(k)

--------------------------------------------------------------------------
(* C11: DeviceSqlString *)

Decoded == codec.at = "decoded"

ReturnsText == ~codec.exc /\ codec.out = codec.text

\* C11 as stated: decoding the short-ASCII form (any tag byte whose upper
\* seven bits are the text length plus one), the long-ASCII form or the
\* long-UTF-16LE form of a text returns exactly that text
C11_EveryFormRoundTrips == Decoded => ReturnsText

\* The short form's tag byte is one of the two that select a long form
LongTagOnShortForm == codec.form = "short" /\ codec.io.bytes[1] \in {64, 144}

\* C11 (amended): decoding the short-ASCII form whose tag byte is neither
\* 0x40 nor 0x90, the long-ASCII form or the long-UTF-16LE form of a text
\* returns exactly that text, the empty text included, and leaves the stream
\* right after the string
C11_FormsRoundTrip ==
    Decoded /\ ~LongTagOnShortForm =>
        /\ ReturnsText
        /\ codec.io.pos = Len(codec.io.bytes) - Len(Trailer)

\* A text outside ASCII with a character outside the BMP came back from
\* its UTF-16LE form
C11_Witness ==
    /\ Decoded
    /\ codec.form = "long_utf16le"
    /\ Len(codec.text) = 2
    /\ \E k \in 1..2 : codec.text[k] > 65535
    /\ ReturnsText

--------------------------------------------------------------------------
(* C12, C13, C19: the analysis file *)

\* A whole section lies at the reader's position: its 12 header bytes and
\* the len_tag - 12 bytes after them are in the file
WholeSectionAhead ==
    /\ anlz.at \in {"sections", "raised"}
    /\ anlz.pos + 12 <= Len(anlz.bytes)
    /\ U32BE(anlz.bytes, anlz.pos + 8) >= 12
    /\ anlz.pos + U32BE(anlz.bytes, anlz.pos + 8) <= Len(anlz.bytes)

FourccAhead == S32BE(anlz.bytes, anlz.pos)

\* The section ahead, from its byte 12 on
BodyAhead ==
    SubSeq(anlz.bytes, anlz.pos + 13, anlz.pos + U32BE(anlz.bytes, anlz.pos + 8))

\* A whole song-structure section lies ahead, long enough for the entries
\* it declares
SongStructureAhead ==
    /\ WholeSectionAhead
    /\ FourccAhead = SongStructureFourcc
    /\ Len(BodyAhead) >= 6 + 14 + 24 * U16BE(BodyAhead, 4)

SongStructuresRead ==
    {k \in 1..Len(anlz.sections) : anlz.sections[k].body.cls = "SongStructureTag"}

\* The raw body of a section read: the bytes after len_entry_bytes and len_entries
RawBodyOf(sec) == SubSeq(sec.raw_body, 7, Len(sec.raw_body))

\* C12: a song-structure section is parsed from its raw body unchanged when
\* the u16 read at the mood's place is at most 20, and from the raw body
\* XORed with the derived key when it is greater; either way parsing the
\* section produces a body and raises nothing
C12_ParsedDirectlyOrUnmasked ==
    /\ \A k \in SongStructuresRead :
          LET sec == anlz.sections[k]
              n == U16BE(sec.raw_body, 4)
          IN  /\ sec.body.raw_mood = U16BE(RawBodyOf(sec), 0)
              /\ sec.body.raw_mood <= 20 =>
                    sec.body.body = SongStructureBody(RawBodyOf(sec), n)
              /\ sec.body.raw_mood > 20 =>
                    sec.body.body =
                        SongStructureBody(process_xor_many(RawBodyOf(sec), KeyOf(n)), n)
    /\ SongStructureAhead => anlz.at # "raised"

\* The mood under the mask of the song-structure section ahead
MoodUnmaskedAhead ==
    U16BE(process_xor_many(SubSeq(BodyAhead, 7, Len(BodyAhead)),
                           KeyOf(U16BE(BodyAhead, 4))), 0)

\* C13: a song-structure section whose raw mood is greater than 20 gives a
\* body whose mood is 1, 2 or 3
C13_UnmaskedMoodInRange ==
    /\ \A k \in SongStructuresRead :
          anlz.sections[k].body.raw_mood > 20 =>
              anlz.sections[k].body.body.mood \in {1, 2, 3}
    /\ SongStructureAhead /\ U16BE(BodyAhead, 6) > 20 /\ MoodUnmaskedAhead \in {1, 2, 3}
          => anlz.at # "raised"

UnknownRead ==
    {k \in 1..Len(anlz.sections) : anlz.sections[k].fourcc \notin SectionTags}

\* Each section read of unknown fourcc is kept as the len_tag - 12 bytes after
\* its header, and the reader went on len_tag bytes after its start
UnknownKeptOpaque ==
    \A k \in UnknownRead :
        LET sec == anlz.sections[k]
        IN  /\ sec.body.cls = "UnknownTag"
            /\ Len(sec.raw_body) = sec.len_tag - 12
            /\ sec.raw_body = SubSeq(anlz.bytes, sec.start + 13, sec.start + sec.len_tag)
            /\ IF k < Len(anlz.sections)
               THEN anlz.sections[k + 1].start = sec.start + sec.len_tag
               ELSE anlz.pos = sec.start + sec.len_tag

\* When the reader returns, the sections read lie end to end from the end
\* of the header to the end of the file
AllEnumerated ==
    anlz.at = "done" =>
        /\ anlz.pos = Len(anlz.bytes)
        /\ anlz.sections # <<>> => anlz.sections[1].start = U32BE(anlz.bytes, 4)
        /\ \A k \in 1..(Len(anlz.sections) - 1) :
              anlz.sections[k + 1].start = anlz.sections[k].start + anlz.sections[k].len_tag

\* C19 as stated: a section of unknown fourcc never causes an error
C19_UnknownNeverRaises ==
    /\ UnknownKeptOpaque
    /\ AllEnumerated
    /\ anlz.at = "raised" /\ anlz.pos + 12 <= Len(anlz.bytes) => FourccAhead \in SectionTags

\* C19 (amended): a section of unknown fourcc whose len_tag is at least 12
\* and whose len_tag bytes lie within the file causes no error: it is kept
\* as an opaque body of exactly len_tag - 12 bytes and the reader goes on
\* len_tag bytes after its start, so that the sections read cover the file
C19_WholeUnknownNeverRaises ==
    /\ UnknownKeptOpaque
    /\ AllEnumerated
    /\ anlz.at = "raised" /\ WholeSectionAhead => FourccAhead \in SectionTags

\* The reader returned two sections, the first of unknown fourcc with a
\* body of four bytes, the second a song structure
C19_Witness ==
    /\ anlz.at = "done"
    /\ Len(anlz.sections) = 2
    /\ anlz.sections[1].fourcc \notin SectionTags
    /\ Len(anlz.sections[1].raw_body) = 4
    /\ anlz.sections[2].body.cls = "SongStructureTag"

--------------------------------------------------------------------------
(* C14, C15: a walk that fails *)

\* Every data page of the chain declares the table's own type
OwnTypes(f, t) ==
    \A n \in 1..Len(ChainOf(f, t)) :
        is_data_page(f.pages[ChainOf(f, t)[n]]) => f.pages[ChainOf(f, t)[n]].type = t

\* The present rows of the chain that run past the end of their page, by
\* their rank in chain order
TornRanks(f, t) ==
    {k \in 1..Len(ExpectedPlaces(f, t)) : ~RawAt(f, ExpectedPlaces(f, t)[k]).ok}

\* The chain leads to a page the file does not have
LeavesFile(f, t) == ~Cyclic(f, t) /\ ~EndsAtZero(f, t)

\* The walk of table t meets a failure
FailsIn(f, t) == OwnTypes(f, t) /\ (TornRanks(f, t) # {} \/ LeavesFile(f, t))

\* The present rows of the chain's data pages that come before the first
\* failure, in chain order
BeforeFailure(f, t) ==
    IF TornRanks(f, t) = {} THEN ExpectedPlaces(f, t)
    ELSE SubSeq(ExpectedPlaces(f, t), 1,
                (CHOOSE k \in TornRanks(f, t) : \A j \in TornRanks(f, t) : k <= j) - 1)

\* C14: when a row's read runs past the end of its page, or a page of the
\* chain is past the end of the file, the walk stops and returns every row
\* decoded before the failure, those of the failing page included
C14_PartialResultKept ==
    \A t \in Walks :
        Finished(t) /\ file.gap = 0 /\ FailsIn(file, t) =>
            /\ yielded[t] = BeforeFailure(file, t)
            /\ HoldsYielded(t)

\* The walk of the tracks table or of the playlist_tree table went through
\* a whole page and ended at a torn row of the next page, after that page's
\* first row
C14_Witness ==
    \E t \in {"playlist_tree", "tracks"} :
        /\ Finished(t) /\ file.gap = 0 /\ FailsIn(file, t)
        /\ Len(visited[t]) = 2
        /\ Len(yielded[t]) = 3
        /\ yielded[t][3][1] = visited[t][2]
        /\ Len(yielded[t]) < Len(ExpectedPlaces(file, t))

\* What the tree holds for a row of the playlist_tree walk: the playlist
\* with the tracks of its entries, in the order of the entries walk
HoldsPlaylist(meta) ==
    /\ meta.id \in DOMAIN tree.all_playlists
    /\ tree.all_playlists[meta.id].tracks
          = [k \in 1..Len(KeptEntries(meta.id)) |-> tracks[KeptEntries(meta.id)[k].track_id]]

\* C15: when the walk of one table fails, the walks of the other tables
\* yield what their chains hold, and get_playlists returns the tree built
\* from what the three walks yielded
C15_FailureIsolated ==
    Assembled =>
        \A t \in Walks :
            FailsIn(file, t) =>
                /\ \A u \in Walks \ {t} :
                      EndsAtZero(file, u) /\ Decodes(file, u) =>
                          /\ yielded[u] = ExpectedPlaces(file, u)
                          /\ HoldsYielded(u)
                /\ yielded[t] = BeforeFailure(file, t)
                /\ tree.returned
                /\ \A k \in 1..Len(playlists) : HoldsPlaylist(playlists[k])

\* The entries walk failed after its first row; the tree has the three
\* playlists, one of them with the track of that row
C15_Witness ==
    /\ Assembled
    /\ FailsIn(file, "playlist_entries")
    /\ Len(yielded["playlist_entries"]) = 1
    /\ Len(yielded["playlist_tree"]) = 3
    /\ Len(yielded["tracks"]) = 3
    /\ Cardinality(DOMAIN tree.all_playlists) = 3
    /\ \E id \in DOMAIN tree.all_playlists : Len(tree.all_playlists[id].tracks) = 1

--------------------------------------------------------------------------
(* C16: two walks side by side *)

\* C16: each of two walks of different tables, run side by side with their
\* seeks and reads interleaved, yields exactly the rows it yields when run
\* alone: every present row of its table's chain, and no failure
C16_WalksIndependent ==
    \A w \in Walkers :
        walkers[w].at = "returned" =>
            /\ walkers[w].yielded = ExpectedPlaces(file, walkers[w].table)
            /\ ~walkers[w].broke

--------------------------------------------------------------------------
(* C17: pointers that lead outside the file or outside the page *)

\* Where the page keeps the offset of slot k
OfsAddr(k) == LenPage - 36 * (k \div 16) - 6 - 2 * (k % 16)

\* The twelve bytes of the row of slot k lie on the page
RowInside(k) == OffsetOnPage(k \div 16, k % 16) + 40 + 12 <= LenPage

\* The present slots of the page whose row cannot be read from the page:
\* the offset's place is before the start of the page, or the row runs
\* past its end
LostSlots ==
    {k \in 0..(16 * num_row_groups(hdr) - 1) :
        MaskBit(k \div 16, k % 16) = 1 /\ (OfsAddr(k) < 0 \/ ~RowInside(k))}

FirstLost == CHOOSE k \in LostSlots : \A j \in LostSlots : k <= j

\* A walk loads only pages the file has, and a chain that leads to a page
\* past the end of the file is walked up to there
PagesStayInFile ==
    \A t \in Walks :
        /\ \A n \in 1..Len(visited[t]) : visited[t][n] \in 1..Len(file.pages)
        /\ /\ Finished(t) /\ file.gap = 0
           /\ LeavesFile(file, t) /\ OwnTypes(file, t) /\ TornRanks(file, t) = {}
           => /\ visited[t] = ChainOf(file, t)
              /\ yielded[t] = ExpectedPlaces(file, t)

\* Every row decoded lies on its page, and the pass over a page ends at the
\* first present row that does not, keeping the rows before it
RowsStayOnPage ==
    raw_page # NoPage =>
        /\ \A k \in DOMAIN obj.m_body : RowInside(k)
        /\ scan.done /\ is_data_page(hdr) /\ hdr.type = "playlist_entries" =>
              IF LostSlots = {} THEN ~scan.exc
              ELSE /\ scan.exc
                   /\ scan.reported = SelectSeq(SetSlots, LAMBDA k : k <= FirstLost)
                   /\ Len(scan.rows) = Len(scan.reported) - 1

\* A string the page's end cuts, or whose offset is past the page's end,
\* raises and gives no text; a string that is returned was read from the page
StringsStayOnPage ==
    Decoded =>
        /\ codec.form \in {"cut", "outside"} => codec.exc /\ codec.out = <<>>
        /\ ~codec.exc => codec.io.pos <= Len(codec.io.bytes)

\* C17: a next_page index past the end of the file, a row offset outside
\* the page and a string offset outside the page each end the walk where
\* they are met: no page outside the file is loaded, and no row and no
\* string is read from outside the row's own page
C17_PointersStayInside == PagesStayInFile /\ RowsStayOnPage /\ StringsStayOnPage

\* The pass over a page decoded the row of slot 0 and ended at slot 1,
\* whose offset 65535 points far past the end of the page
C17_Witness ==
    /\ raw_page # NoPage
    /\ scan.done /\ scan.exc
    /\ scan.reported = <<0, 1>>
    /\ Len(scan.rows) = 1
    /\ OffsetOnPage(0, 1) = 65535
    /\ 1 \notin DOMAIN obj.m_body

--------------------------------------------------------------------------
(* C18: the row count of a page *)

\* The two counts in the page's header bytes
SmallOnPage == raw_page.bytes[24]
LargeOnPage == raw_page.bytes[34] + 256 * raw_page.bytes[35]

\* The slots of the groups that hold n rows
SlotsFor(n) == 0..(16 * ((n + 15) \div 16) - 1)

\* The pass over a data page went through all its groups
ScannedThrough == scan.done /\ ~scan.exc /\ is_data_page(hdr)

\* C18 as stated: the row count is the large count unless that is 8191,
\* and then the small count; the pass over a page goes through the groups
\* of that many rows
C18_LargeUnlessSentinel ==
    ScannedThrough =>
        DOMAIN obj.m_present
            = SlotsFor(IF LargeOnPage = LargeSentinel THEN SmallOnPage ELSE LargeOnPage)

\* C18: the row count is the large count when that is greater than the small
\* count and is not 8191, and the small count otherwise; the pass over a
\* page goes through the groups of that many rows
C18_LargerUnlessSentinel ==
    ScannedThrough =>
        DOMAIN obj.m_present
            = SlotsFor(IF LargeOnPage = LargeSentinel \/ LargeOnPage <= SmallOnPage
                       THEN SmallOnPage ELSE LargeOnPage)

\* A page whose large count, 2, is below its small count, 17, was scanned
\* through its two groups
C18_Witness ==
    /\ ScannedThrough
    /\ SmallOnPage = 17 /\ LargeOnPage = 2
    /\ DOMAIN obj.m_present = 0..31
    /\ Len(scan.rows) > 2

--------------------------------------------------------------------------
(* C20: a type outside PageType *)

\* The present rows of the pages of the chain of table t that declare t
OwnPlaces(f, t) ==
    SelectSeq(ExpectedPlaces(f, t), LAMBDA place : f.pages[place[1]].type = t)

\* The file has a directory entry of a type PageType does not have
HasUnknownTable == \E k \in 1..Len(file.tables) : file.tables[k].type \notin PageTypes

\* C20: with a directory entry and a page of a type outside the known set,
\* parse returns True, every table of known type is walked to the end of
\* its chain, the present rows of the page of unknown type are passed over
\* and those of the table's own pages yielded, and the tree is returned
C20_UnknownTypeNotFatal ==
    HasUnknownTable /\ file.gap = 0 =>
        /\ parse_result \in {"none", "True"}
        /\ \A t \in Walks :
              Finished(t) =>
                  /\ visited[t] = ChainOf(file, t)
                  /\ yielded[t] = OwnPlaces(file, t)
                  /\ HoldsYielded(t)
        /\ pc = "done" => tree.returned /\ Cardinality(DOMAIN tree.all_playlists) = 3

--------------------------------------------------------------------------
(* C26: the number of row groups *)

\* The row count the header's bytes give
RowsOnPage ==
    IF LargeOnPage > SmallOnPage /\ LargeOnPage # LargeSentinel THEN LargeOnPage
    ELSE SmallOnPage

\* g is the least number of groups of sixteen that hold n rows
IsCeil16(g, n) == 16 * g >= n /\ 16 * (g - 1) < n

\* C26: the number of row groups is ceil(num_rows / 16): a group is read only
\* when sixteen times its number is below the row count, and the pass over
\* a data page goes through exactly the slots of ceil(num_rows / 16) groups,
\* none when num_rows = 0 and one when num_rows = 16
C26_GroupsAreCeiling ==
    /\ \A g \in DOMAIN obj.m_row_present_flags : 16 * g < RowsOnPage
    /\ ScannedThrough =>
          \E g \in 0..4 :
              /\ IsCeil16(g, RowsOnPage)
              /\ Cardinality(DOMAIN obj.m_present) = 16 * g
              /\ \A k \in DOMAIN obj.m_present : k < 16 * g

\* A page of sixteen rows, all present, scanned through its one group
C26_Witness ==
    /\ ScannedThrough
    /\ RowsOnPage = 16
    /\ DOMAIN obj.m_present = 0..15
    /\ DOMAIN obj.m_row_present_flags = {0}
    /\ Len(scan.rows) = 16

--------------------------------------------------------------------------
(* C27: the key of a masked song structure *)

\* Byte i of the key for entry count c: the i-th constant offset by c, as
\* an 8-bit value
KeyByte(i, c) == (MaskBase[i] + c) % 256

\* The bytes b XORed with the 19 key bytes for entry count c, over and over
UnderKey(b, c) == [i \in 1..Len(b) |-> XorByte(b[i], KeyByte(((i - 1) % 19) + 1, c), 8)]

\* A whole song-structure section lies ahead whose raw mood is above 20
MaskedAhead == SongStructureAhead /\ U16BE(BodyAhead, 6) > 20

\* C27: for the entry count c of a masked song-structure section the key is
\* derived without error, is 19 bytes long with byte i the i-th constant
\* plus c as an 8-bit value, and the body parsed is the raw body XORed with
\* the key cyclically
C27_KeyDerived ==
    /\ MaskedAhead =>
          /\ ~SongStructureTag_mask(U16BE(BodyAhead, 4)).exc
          /\ anlz.at # "raised"
    /\ \A k \in SongStructuresRead :
          LET sec == anlz.sections[k]
              c == U16BE(sec.raw_body, 4)
          IN  sec.body.raw_mood > 20 =>
                  /\ SongStructureTag_mask(c).v = [i \in 1..19 |-> KeyByte(i, c)]
                  /\ sec.body.raw_body = UnderKey(RawBodyOf(sec), c)

--------------------------------------------------------------------------
(* C30: the section loop ends *)

\* A pass of the section loop that does not raise moves the reader on by
\* at least the twelve bytes of a section header
PassAdvances ==
    anlz.at = "sections" /\ anlz'.at = "sections" /\ anlz' # anlz
        => anlz'.pos >= anlz.pos + 12

\* C30: every pass of the section loop either moves the read position on by
\* at least 12 bytes or ends the parse with an error, and the parse of
\* every file ends, by returning or by raising
C30_SectionLoopEnds ==
    /\ [][PassAdvances]_vars
    /\ <>(anlz.at \in {"done", "raised"})

\* The reader returned after two passes, the first over a section of
\* exactly twelve bytes, the second over one of thirteen
C30_Witness ==
    /\ anlz.at = "done"
    /\ Len(anlz.sections) = 2
    /\ anlz.sections[1].len_tag = 12
    /\ anlz.sections[2].start = anlz.sections[1].start + 12
    /\ anlz.sections[2].len_tag = 13

--------------------------------------------------------------------------
(* C22: the decoder of a row *)

\* C22: every row a walk yields was decoded with the decoder of the table's
\* type: the fields of the yielded item are those the table's row class
\* reads from the row's words, whatever type the page's header declares
C22_DecodedByTableType ==
    \A t \in Walks : file.gap = 0 => HoldsYielded(t)

--------------------------------------------------------------------------
(* C28: the roots of the tree *)

\* C28: in the tree get_playlists returns, every element of root_playlists
\* is the playlist all_playlists holds under that element's id
C28_RootsAreInAllPlaylists ==
    Assembled =>
        \A k \in 1..Len(tree.root_playlists) :
            /\ tree.root_playlists[k].id \in DOMAIN tree.all_playlists
            /\ tree.all_playlists[tree.root_playlists[k].id] = tree.root_playlists[k]

--------------------------------------------------------------------------
(* C21: the place of export.pdb *)

Searched == usb.at = "searched"

\* The three candidates, as the claim lists them
Candidate(k) ==
    <<usb.usb_path, <<"PIONEER", "Pioneer", "pioneer">>[k], "rekordbox", "export.pdb">>

\* C21: find_pdb_file returns the first of usb_path/PIONEER/rekordbox/export.pdb,
\* usb_path/Pioneer/rekordbox/export.pdb, usb_path/pioneer/rekordbox/export.pdb
\* that exists, and None when none of the three exists
C21_FirstExistingCandidate ==
    Searched =>
        /\ (\A k \in 1..3 : ~exists(usb.drive, Candidate(k))) => usb.found = None
        /\ \A k \in 1..3 :
              (/\ exists(usb.drive, Candidate(k))
               /\ \A j \in 1..(k - 1) : ~exists(usb.drive, Candidate(j)))
                  => usb.found = Candidate(k)

\* A searched drive without PIONEER/rekordbox/export.pdb that holds the
\* file under both other names: the Pioneer one is returned
C21_Witness ==
    /\ Searched
    /\ ~exists(usb.drive, Candidate(1))
    /\ exists(usb.drive, Candidate(2))
    /\ exists(usb.drive, Candidate(3))
    /\ usb.found = Candidate(2)

--------------------------------------------------------------------------
(* C23, C24: near and far name offsets *)

\* The reads of the row's properties that went to the page for a string
StringSeeks == {k \in 1..Len(lazy.log) : lazy.log[k].sought >= 0}

\* The bytes of the row on its page, from the row's first byte
RowByte(n) == lazy.io.bytes[lazy.row_base + n + 1]
RowWord(n) == U16(lazy.io.bytes, lazy.row_base + n + 1)

\* C23: the name of an ArtistRow is decoded at row_base plus the u16 stored
\* at row_base + 10 when the row's subtype is 100, and at row_base plus the
\* byte ofs_name_near for every other subtype
C23_ArtistNameNearOrFar ==
    lazy.cls = "ArtistRow" =>
        \A k \in StringSeeks :
            lazy.log[k].sought =
                lazy.row_base + (IF RowWord(0) = 100 THEN RowWord(10) ELSE RowByte(9))

\* An artist row of subtype 100 whose far offset is beyond the reach of a
\* byte: the name read is the string that lies there, not the near one
C23_Witness ==
    /\ lazy.cls = "ArtistRow"
    /\ RowWord(0) = 100
    /\ \E k \in StringSeeks :
          /\ lazy.log[k].sought = lazy.row_base + RowWord(10)
          /\ RowWord(10) > 255
          /\ ~lazy.log[k].exc
          /\ lazy.log[k].v = FarText

\* C24: the name of an AlbumRow is decoded at row_base plus a two-byte far
\* offset when the row's subtype signals a far name, as for an ArtistRow,
\* and at row_base plus the one-byte near offset otherwise
C24_AlbumNameNearOrFar ==
    lazy.cls = "AlbumRow" =>
        \A k \in StringSeeks :
            lazy.log[k].sought =
                lazy.row_base + (IF RowWord(0) = 100 THEN RowWord(22) ELSE RowByte(21))

--------------------------------------------------------------------------
(* C25: what reading a string property leaves behind *)

\* The offset the row stores for a property
StoredOffset(name) ==
    CASE lazy.cls = "TrackRow" /\ name = "title" -> RowWord(94 + 2 * 17)
      [] lazy.cls = "TrackRow" /\ name = "file_path" -> RowWord(94 + 2 * 20)
      [] lazy.cls = "AlbumRow" -> RowByte(21)
      [] lazy.cls = "ArtistRow" -> IF RowWord(0) = 100 THEN RowWord(10) ELSE RowByte(9)

\* The string that lies at an offset of the model's rows
TextAt(ofs) == IF ofs = StoredOffset("title") /\ lazy.cls = "TrackRow" THEN NearText
               ELSE IF lazy.cls = "TrackRow" THEN FarText
               ELSE IF ofs = RowByte(IF lazy.cls = "ArtistRow" THEN 9 ELSE 21) THEN NearText
               ELSE FarText

Returned == {k \in 1..Len(lazy.log) : ~lazy.log[k].exc}

\* C25: a read of a string property that returns has decoded the string at
\* row_base plus the stored offset, leaves the page stream where it was
\* before the read, and returns what every other read of that property
\* returns
C25_StringReadRestoresPosition ==
    /\ \A k \in Returned :
          /\ lazy.log[k].after = lazy.log[k].before
          /\ k = Len(lazy.log) => lazy.io.pos = lazy.log[k].before
          /\ lazy.log[k].v = TextAt(StoredOffset(lazy.log[k].name))
    /\ \A k \in StringSeeks : lazy.log[k].sought = lazy.row_base + StoredOffset(lazy.log[k].name)
    /\ \A j, k \in Returned :
          lazy.log[j].name = lazy.log[k].name => lazy.log[j].v = lazy.log[k].v

\* A track row whose title was read twice with the stream somewhere behind
\* the row's start: decoded once, at its offset, answered alike both times,
\* the stream where it was
C25_Witness ==
    /\ lazy.cls = "TrackRow"
    /\ Len(lazy.log) >= 2
    /\ lazy.log[1].name = "title" /\ lazy.log[2].name = "title"
    /\ lazy.log[1].sought = lazy.row_base + 136
    /\ lazy.log[2].sought < 0
    /\ lazy.log[1].v = NearText /\ lazy.log[2].v = NearText
    /\ lazy.log[1].before > 0
    /\ lazy.io.pos = lazy.log[1].before

--------------------------------------------------------------------------
(* C29: what enhance_playlist_tracks keeps *)

Enhanced == enhance.at = "returned"

\* C29: the playlist enhance_playlist_tracks returns has the id, name,
\* is_folder and parent_id of the playlist it was given and as many tracks,
\* with the same file paths in the same order
C29_EnhanceKeepsTracks ==
    Enhanced =>
        /\ enhance.result.id = enhance.playlist.id
        /\ enhance.result.name = enhance.playlist.name
        /\ enhance.result.is_folder = enhance.playlist.is_folder
        /\ enhance.result.parent_id = enhance.playlist.parent_id
        /\ Len(enhance.result.tracks) = Len(enhance.playlist.tracks)
        /\ \A k \in 1..Len(enhance.playlist.tracks) :
              enhance.result.tracks[k].file_path = enhance.playlist.tracks[k].file_path

====
